---- MODULE Spec2Model ----
(***************************************************************************)
(* Model of the OSG repository layout migration (migrate.py): a small      *)
(* POSIX filesystem (directories, regular files with inode and content,    *)
(* relative symlinks) and the migration program as a state machine over    *)
(* it, one step per filesystem call.                                        *)
(***************************************************************************)
EXTENDS Integers, Sequences, FiniteSets, TLC

VARIABLES
    fs,       \* the filesystem: real path -> node
    fs0,      \* the filesystem before the program was ever run
    pc,       \* position of the running process ("idle": no process)
    argv,     \* the command line: [flags, dry_run, dirs]
    args,     \* the namespace get_args returns
    ran,      \* migration kinds whose function main has called, in order
    fn,       \* the migrate_* function main is in ("": none)
    gen,      \* the repos() generator: [d: index into dirs, todo: repos left]
    repo,     \* the repo the current migrate_* loop body works on
    dest,     \* migrate_source: where the source tree is renamed to
    frame,    \* locals of migrate_one_repo
    hist,     \* bookkeeping about the migrate_one_repo calls (not program state)
    runs,     \* number of program invocations so far
    crashes,  \* number of interrupted invocations so far
    lib       \* the distrepos function that runs: its options, locals, result

vars == <<fs, fs0, pc, argv, args, ran, fn, gen, repo, dest, frame, hist,
          runs, crashes, lib>>

-----------------------------------------------------------------------------
(* Bounds of the model *)

\* packages a repo holds before migration
MaxPkgs == 2
\* program invocations killed part-way
MaxCrashes == 1
\* symlinks followed while resolving one path (ELOOP guard)
MaxHops == 4
\* calls of one distrepos function in a row
MaxCalls == 2

-----------------------------------------------------------------------------
(* Strings *)

Char(s, i) == SubSeq(s, i, i)

StrTail(s, i) == SubSeq(s, i, Len(s))

\* s has the literal lit at position i
HasAt(s, i, lit) == /\ i >= 1
                    /\ i + Len(lit) - 1 <= Len(s)
                    /\ SubSeq(s, i, i + Len(lit) - 1) = lit

\* fnmatch with literal characters and "*"
RECURSIVE GlobMatch(_, _)
GlobMatch(pat, s) ==
    IF Len(pat) = 0 THEN Len(s) = 0
    ELSE IF Char(pat, 1) = "*"
         THEN \E k \in 0..Len(s) : GlobMatch(StrTail(pat, 2), StrTail(s, k + 1))
         ELSE /\ Len(s) > 0
              /\ Char(s, 1) = Char(pat, 1)
              /\ GlobMatch(StrTail(pat, 2), StrTail(s, 2))

\* the characters of file names, in code point order
CodePoints == "-.0123456789ABCDEFGHIJKLMNOPQRSTUVWXYZ_abcdefghijklmnopqrstuvwxyz"

Ord(c) == CHOOSE k \in 1..Len(CodePoints) : Char(CodePoints, k) = c

\* a < b as Python compares str
RECURSIVE StrLess(_, _)
StrLess(a, b) ==
    IF Len(b) = 0 THEN FALSE
    ELSE IF Len(a) = 0 THEN TRUE
    ELSE IF Char(a, 1) = Char(b, 1) THEN StrLess(StrTail(a, 2), StrTail(b, 2))
    ELSE Ord(Char(a, 1)) < Ord(Char(b, 1))

\* sorted(): the names of S in ascending order
RECURSIVE Sorted(_)
Sorted(S) ==
    IF S = {} THEN <<>>
    ELSE LET least == CHOOSE x \in S : \A y \in S \ {x} : StrLess(x, y)
         IN  <<least>> \o Sorted(S \ {least})

UpperCase == "ABCDEFGHIJKLMNOPQRSTUVWXYZ"
LowerCase == "abcdefghijklmnopqrstuvwxyz"

\* str.lower() of one character
Lower(c) ==
    IF \E k \in 1..Len(UpperCase) : Char(UpperCase, k) = c
    THEN Char(LowerCase, CHOOSE k \in 1..Len(UpperCase) : Char(UpperCase, k) = c)
    ELSE c

-----------------------------------------------------------------------------
(* Program constants *)

BINARY_ARCHES == <<"aarch64", "x86_64">>

CONDOR_RPM_GLOBS == <<"condor-*.rpm", "htcondor-ce-*.rpm", "htcondor-release-*.rpm",
                      "minicondor-*.rpm", "pelican-*.rpm", "python3-condor-*.rpm">>

Range(s) == {s[k] : k \in DOMAIN s}

\* mutant: the pattern without its "devops" alternative
IsLegacy_noDevops(name) ==
    \E k \in 1..Len(name) :
        /\ HasAt(name, k, ".osg3")
        /\ \E d \in {"1", "2", "3", "4", "5", "6"} : HasAt(name, k + 5, d)

\* re.search(r"[.]osg(3[123456]|devops)", name)
IsLegacy(name) ==
    \E k \in 1..Len(name) :
        \/ /\ HasAt(name, k, ".osg3")
           /\ \E d \in {"1", "2", "3", "4", "5", "6"} : HasAt(name, k + 5, d)
        \/ HasAt(name, k, ".osgdevops")

\* any(rpm.match(gl) for gl in CONDOR_RPM_GLOBS)
IsCondorRpm(name) == \E g \in Range(CONDOR_RPM_GLOBS) : GlobMatch(g, name)

\* mutant: a leading digit is a bucket like any other character
LetterBucket_keepDigits(name) == Lower(Char(name, 1))

\* the bucket of a package that is not Condor-family
LetterBucket(name) ==
    IF \E d \in 1..10 : Char("0123456789", d) = Char(name, 1)
    THEN "0"
    ELSE Lower(Char(name, 1))

-----------------------------------------------------------------------------
(* The filesystem.  A path is the sequence of its components from "/"; fs   *)
(* maps every real path (no symlink among its proper ancestors) to a node.  *)

Dir == [kind |-> "dir", ino |-> 0, data |-> <<>>, target |-> <<>>]

\* a regular file: its inode number and its content (named by the path the
\* content was first stored at)
File(i, d) == [kind |-> "file", ino |-> i, data |-> d, target |-> <<>>]

\* a symlink and its target: a relative path, or an absolute one, which
\* begins with the component "/"
Link(t) == [kind |-> "link", ino |-> 0, data |-> <<>>, target |-> t]

\* what a path that names nothing resolves to
NoEnt == <<"">>

Dirname(p) == SubSeq(p, 1, Len(p) - 1)

Basename(p) == p[Len(p)]

IsPrefix(a, b) == Len(a) <= Len(b) /\ SubSeq(b, 1, Len(a)) = a

\* path resolution: done is resolved, rest is still to walk
RECURSIVE Walk(_, _, _, _)
Walk(f, done, rest, hops) ==
    IF rest = <<>> THEN done
    ELSE IF Head(rest) = "/" THEN Walk(f, <<>>, Tail(rest), hops)
    ELSE IF Head(rest) = ".." THEN Walk(f, Dirname(done), Tail(rest), hops)
    ELSE LET q == Append(done, Head(rest)) IN
         IF q \notin DOMAIN f THEN NoEnt
         ELSE IF f[q].kind = "link"
              THEN IF hops = 0 THEN NoEnt
                   ELSE Walk(f, done, f[q].target \o Tail(rest), hops - 1)
         ELSE IF f[q].kind = "file" /\ Tail(rest) # <<>> THEN NoEnt
         ELSE Walk(f, q, Tail(rest), hops)

\* the real path of p, every symlink followed (stat, Path.resolve)
Resolve(f, p) == Walk(f, <<>>, p, MaxHops)

\* the real path of p, its last component not followed (lstat, rename, symlink)
LPath(f, p) ==
    IF p = <<>> THEN <<>>
    ELSE LET d == Resolve(f, Dirname(p)) IN
         IF d = NoEnt THEN NoEnt ELSE Append(d, Basename(p))

Exists(f, p) == Resolve(f, p) \in DOMAIN f

LExists(f, p) == LPath(f, p) \in DOMAIN f

IsSymlink(f, p) == LExists(f, p) /\ f[LPath(f, p)].kind = "link"

IsDir(f, p) == Exists(f, p) /\ f[Resolve(f, p)].kind = "dir"

IsFile(f, p) == Exists(f, p) /\ f[Resolve(f, p)].kind = "file"

Put(f, p, node) == [q \in DOMAIN f \cup {p} |-> IF q = p THEN node ELSE f[q]]

Max(S) == CHOOSE x \in S : \A y \in S : y <= x

\* an inode number no file has
FreshIno(f) == 1 + Max({0} \cup {f[q].ino : q \in DOMAIN f})

\* Path.mkdir(parents=True, exist_ok=True)
RECURSIVE MkdirP(_, _)
MkdirP(f, p) ==
    IF Exists(f, p) \/ p = <<>> THEN f
    ELSE LET g == MkdirP(f, Dirname(p)) IN
         Put(g, Append(Resolve(g, Dirname(p)), Basename(p)), Dir)

MkdirOk(f, p) ==
    /\ \A k \in 1..Len(p) :
          LExists(f, SubSeq(p, 1, k)) => IsDir(f, SubSeq(p, 1, k))

\* os.rename(frompath, topath): the entry and everything under it moves
Rename(f, frompath, topath) ==
    LET lf == LPath(f, frompath)
        lt == LPath(f, topath)
        moved == {q \in DOMAIN f : IsPrefix(lf, q)}
        kept == {q \in DOMAIN f : ~IsPrefix(lf, q) /\ ~IsPrefix(lt, q)}
        NewPath(q) == lt \o SubSeq(q, Len(lf) + 1, Len(q))
        OldPath(q) == lf \o SubSeq(q, Len(lt) + 1, Len(q))
    IN  [q \in kept \cup {NewPath(x) : x \in moved} |->
            IF q \in kept THEN f[q] ELSE f[OldPath(q)]]

RenameOk(f, frompath, topath) ==
    /\ LExists(f, frompath)
    /\ IsDir(f, Dirname(topath))
    /\ ~IsPrefix(LPath(f, frompath), LPath(f, topath))
    /\ LExists(f, topath) =>
          /\ f[LPath(f, topath)].kind # "dir"
          /\ f[LPath(f, frompath)].kind # "dir"

\* os.path.relpath(topath, start): lexical, no symlink is looked at
RECURSIVE CommonLen(_, _)
CommonLen(a, b) ==
    IF a = <<>> \/ b = <<>> \/ Head(a) # Head(b) THEN 0
    ELSE 1 + CommonLen(Tail(a), Tail(b))

\* mutant: the path below the common ancestor, without the climb to it
RelPath_noClimb(topath, start) ==
    SubSeq(topath, CommonLen(topath, start) + 1, Len(topath))

\* mutant: relative to the moved entry itself, not to its directory
RelPath_fromEntry(topath, start) ==
    LET c == CommonLen(topath, start) IN
    [k \in 1..(Len(start) + 1 - c) |-> ".."] \o SubSeq(topath, c + 1, Len(topath))

RelPath(topath, start) ==
    LET c == CommonLen(topath, start) IN
    [k \in 1..(Len(start) - c) |-> ".."] \o SubSeq(topath, c + 1, Len(topath))

\* os.symlink(target, at)
Symlink(f, target, at) == Put(f, LPath(f, at), Link(target))

SymlinkOk(f, at) == IsDir(f, Dirname(at)) /\ ~LExists(f, at)

\* os.link(frompath, topath).  follow: whether link(2) of the platform follows
\* a symlink at frompath (POSIX leaves it to the implementation)
Hardlink(f, frompath, topath, follow) ==
    LET src == IF follow THEN Resolve(f, frompath) ELSE LPath(f, frompath)
    IN  Put(f, LPath(f, topath), f[src])

HardlinkOk(f, frompath, topath, follow) ==
    LET src == IF follow THEN Resolve(f, frompath) ELSE LPath(f, frompath)
    IN  /\ src \in DOMAIN f
        /\ f[src].kind # "dir"
        /\ IsDir(f, Dirname(topath))
        /\ ~LExists(f, topath)

\* open(path, "wb"): the file written, symlinks at path followed to the end
RECURSIVE WritePath(_, _, _)
WritePath(f, path, hops) ==
    LET lp == LPath(f, path) IN
    IF lp \in DOMAIN f /\ f[lp].kind = "link"
    THEN IF hops = 0 THEN NoEnt
         ELSE WritePath(f, Dirname(lp) \o f[lp].target, hops - 1)
    ELSE lp

\* mutant: the copy writes nothing
Copy2_none(f, frompath, topath) == f

\* shutil.copy2(frompath, topath): both ends are opened through symlinks; an
\* existing destination keeps its inode, a new one gets a fresh inode
Copy2(f, frompath, topath) ==
    LET at == WritePath(f, topath, MaxHops) IN
    Put(f, at, File(IF at \in DOMAIN f THEN f[at].ino ELSE FreshIno(f),
                    f[Resolve(f, frompath)].data))

Copy2Ok(f, frompath, topath) ==
    LET at == WritePath(f, topath, MaxHops) IN
    /\ IsFile(f, frompath)
    /\ at # NoEnt
    /\ Dirname(at) \in DOMAIN f
    /\ at \in DOMAIN f =>
          /\ f[at].kind = "file"
          /\ f[at].ino # f[Resolve(f, frompath)].ino

-----------------------------------------------------------------------------
(* The mirror before migration: one channel directory holding a binary     *)
(* repo, its debug repo and a source repo, each marked by a repodata        *)
(* directory.                                                               *)

M == <<"m">>

Chan == M \o <<"testing">>

BinRepo == Chan \o <<"x86_64">>

DebugRepo == BinRepo \o <<"debug">>

SrcRepo == Chan \o <<"source", "SRPMS">>

NewSrc == Chan \o <<"src">>

RepoOf == [binary |-> BinRepo, debug |-> DebugRepo, source |-> SrcRepo]

Kinds == {"source", "binary", "debug"}

\* the packages a repo may hold: <<name stem, dist tag>>, in sorted order
PkgList == << <<"a", ".osg36">>, <<"condor", ".osg23">>, <<"foo", ".osg23">>,
              <<"z", ".osgdevops">> >>

\* the file name of package k in a repo of kind rk
PkgName(k, rk) ==
    PkgList[k][1] \o (IF rk = "debug" THEN "-debuginfo" ELSE "") \o "-1"
        \o PkgList[k][2] \o (IF rk = "source" THEN ".src" ELSE ".x86_64") \o ".rpm"

KindIndex == [source |-> 1, binary |-> 2, debug |-> 3]

\* the package files of the repos: package k of P is in every repo, each
\* file with an inode and a content of its own
PkgFiles(P) ==
    LET Slots == {<<k, rk>> : k \in P, rk \in Kinds}
        PathOf(s) == Append(RepoOf[s[2]], PkgName(s[1], s[2]))
    IN  [p \in {PathOf(s) : s \in Slots} |->
            LET s == CHOOSE s \in Slots : PathOf(s) = p
            IN  File(Len(PkgList) * KindIndex[s[2]] + s[1], p)]

Dirs(S) == [p \in S |-> Dir]

Prefixes(p) == {SubSeq(p, 1, k) : k \in 0..Len(p)}

\* the mirror in the old layout, with the packages P in each repo
OldTree(P) ==
    Dirs(UNION {Prefixes(Append(RepoOf[rk], "repodata")) : rk \in Kinds})
        @@ PkgFiles(P)

-----------------------------------------------------------------------------
(* The command line *)

Flags == {"--source", "--binary", "--debug", "--all"}

\* the flag combinations tried
Argvs == {<<>>, <<"--source">>, <<"--binary">>, <<"--debug">>, <<"--all">>,
          <<"--source", "--binary">>, <<"--all", "--debug">>,
          <<"--debug", "--all">>}

\* the directory arguments tried
DirArgs == {<<M>>, <<M, M>>, <<M, SrcRepo>>}

all_actions == <<"source", "binary", "debug">>

\* argparse: append_const appends the flag's kind to (a copy of) args.actions,
\* store_const replaces args.actions by all_actions
RECURSIVE ParseFlags(_, _)
ParseFlags(flags, acc) ==
    IF flags = <<>> THEN acc
    ELSE ParseFlags(Tail(flags),
                    IF Head(flags) = "--all" THEN all_actions
                    ELSE Append(acc, SubSeq(Head(flags), 3, Len(Head(flags)))))

\* get_args: parse, then the default for "no kind flag given"
get_args(a) ==
    LET parsed == [dirs |-> a.dirs, dry_run |-> a.dry_run,
                   actions |-> ParseFlags(a.flags, <<>>), action |-> <<>>]
    IN  IF parsed.actions = <<>>
        THEN [parsed EXCEPT !.action = all_actions]
        ELSE parsed

NoArgs == [dirs |-> <<>>, dry_run |-> FALSE, actions |-> <<>>, action |-> <<>>]

NoArgv == [flags |-> <<>>, dry_run |-> FALSE, dirs |-> <<>>]

\* no distrepos function runs
NoLib == [f |-> ""]

-----------------------------------------------------------------------------
(* repos(): the repos under the directories given *)

\* Path(dir_).glob("**/repodata"): "**" walks the real directories under
\* dir_ (dir_ itself may be a symlink; symlinks below it are not entered);
\* a match is reported by its path from dir_
Repos(f, dir_) ==
    LET top == Resolve(f, dir_) IN
    {dir_ \o SubSeq(q, Len(top) + 1, Len(q)) :
        q \in {x \in DOMAIN f : /\ IsPrefix(top, x)
                                /\ f[x].kind = "dir"
                                /\ Exists(f, Append(x, "repodata"))}}

NoGen == [d |-> 0, todo |-> {}]

\* the generator at its start: the matches under the first directory
GenStart(f, ds) ==
    IF ds = <<>> THEN [d |-> 0, todo |-> {}]
    ELSE [d |-> 1, todo |-> Repos(f, ds[1])]

-----------------------------------------------------------------------------
(* migrate_one_repo *)

\* mutant: the channel read from the path as given, no symlink resolved
get_condor_package_subdirs_lexical(f, r) ==
    LET parent_name ==
            IF Basename(r) = "debug" \/ Basename(r) = "SRPMS"
            THEN IF Len(r) >= 3 THEN r[Len(r) - 2] ELSE ""
            ELSE IF Len(r) >= 2 THEN r[Len(r) - 1] ELSE ""
    IN  IF parent_name \in {"testing", "release"}
        THEN <<"condor-release", "condor-update">>
        ELSE IF parent_name = "development"
        THEN <<"condor-daily">>
        ELSE <<"condor-release", "condor-update", "condor-daily">>

\* get_condor_package_subdirs
get_condor_package_subdirs(f, r) ==
    LET real == Resolve(f, r)
        parent_name ==
            IF Basename(r) = "debug" \/ Basename(r) = "SRPMS"
            THEN IF Len(real) >= 3 THEN real[Len(real) - 2] ELSE ""
            ELSE IF Len(real) >= 2 THEN real[Len(real) - 1] ELSE ""
    IN  IF parent_name \in {"testing", "release"}
        THEN <<"condor-release", "condor-update">>
        ELSE IF parent_name = "development"
        THEN <<"condor-daily">>
        ELSE <<"condor-release", "condor-update", "condor-daily">>

\* sorted(repo.glob("*.rpm")), by name: the entries directly under the repo
all_rpms(f, r) ==
    LET real == Resolve(f, r) IN
    Sorted({Basename(q) : q \in {x \in DOMAIN f : /\ Len(x) = Len(real) + 1
                                                  /\ IsPrefix(real, x)
                                                  /\ GlobMatch("*.rpm", Basename(x))}})

\* lines 107-110: some package of the listing carries a legacy dist tag
LegacyFound(rpms) == \E k \in DOMAIN rpms : IsLegacy(rpms[k])

\* lines 123-130: the directory a package is moved to
destdir(packages_dir, subdirs, name) ==
    IF IsCondorRpm(name) THEN Append(packages_dir, subdirs[1])
    ELSE Append(packages_dir, LetterBucket(name))

\* move_and_symlink, lines 49-50, as one step
move_and_symlink(f, frompath, topath) ==
    Symlink(Rename(f, frompath, topath), RelPath(topath, Dirname(frompath)), frompath)

\* what a complete earlier run of migrate_one_repo(r, pd) on the packages
\* names left behind (replicas as hard links to the file)
RECURSIVE EarlierRun(_, _, _, _)
EarlierRun(f, r, pd, names) ==
    IF names = <<>> THEN f
    ELSE LET n == Head(names)
             subdirs == get_condor_package_subdirs(f, r)
             to == destdir(pd, subdirs, n)
             moved == move_and_symlink(MkdirP(f, to), Append(r, n), Append(to, n))
             other == Append(pd, subdirs[2])
         IN  EarlierRun(IF IsCondorRpm(n)
                        THEN Hardlink(MkdirP(moved, other), Append(to, n),
                                      Append(other, n), TRUE)
                        ELSE moved,
                        r, pd, Tail(names))

\* the mirror before the program is run, with the packages P in each repo:
\*   "old"          nothing is migrated
\*   "src_synced"   the new source location is there already (synced from
\*                  the new server)
\*   "bin_migrated" the binary repo was migrated by an earlier run
Tree(P, layout) ==
    LET old == OldTree(P) IN
    IF layout = "src_synced"
    THEN old @@ Dirs({NewSrc, Append(NewSrc, "repodata")})
    ELSE IF layout = "bin_migrated" /\ ~LegacyFound(all_rpms(old, BinRepo))
    THEN EarlierRun(old, BinRepo, Append(BinRepo, "Packages"), all_rpms(old, BinRepo))
    ELSE old

Layouts == {"old", "src_synced", "bin_migrated"}

InitTrees ==
    {Tree(P, l) : P \in {Q \in SUBSET (1..Len(PkgList)) : Cardinality(Q) <= MaxPkgs},
                  l \in Layouts}

\* Mirrors with several channels, with a symlink to a channel directory, and
\* with repos of other names and places

Channels == {"testing", "release", "development", "itb"}

\* the repo of kind rk in the channel c
RepoAt(c, rk) == M \o <<c>> \o SubSeq(RepoOf[rk], Len(Chan) + 1, Len(RepoOf[rk]))

\* the new location of the source tree of the channel c
SrcAt(c) == M \o <<c, "src">>

\* the packages of these mirrors by name stem, in sorted order
Stems == <<"7zip", "Zlib", "condor">>

RpmName(stem, rk) ==
    stem \o (IF rk = "debug" THEN "-debuginfo" ELSE "") \o "-1.osg23"
         \o (IF rk = "source" THEN ".src" ELSE ".x86_64") \o ".rpm"

ChanIndex == [testing |-> 1, release |-> 2, development |-> 3, itb |-> 4]

\* the channel c in the old layout, every package in each of its repos
ChannelTree(c) ==
    LET Slots == {<<k, rk>> : k \in DOMAIN Stems, rk \in Kinds}
        PathOf(s) == Append(RepoAt(c, s[2]), RpmName(Stems[s[1]], s[2]))
    IN  Dirs(UNION {Prefixes(Append(RepoAt(c, rk), "repodata")) : rk \in Kinds})
            @@ [p \in {PathOf(s) : s \in Slots} |->
                   LET s == CHOOSE s \in Slots : PathOf(s) = p
                   IN  File(100 * ChanIndex[c] + 10 * KindIndex[s[2]] + s[1], p)]

\* a symlink at the top of the filesystem to a channel directory
Cur == <<"cur">>

AliasTree == ChannelTree("development") @@ (Cur :> Link(<<"m", "development">>))

\* the states a source tree is met in
SourceStates == {"fresh", "migrated", "synced", "legacy"}

\* the mirror f with the source tree of the channel c in the state st
WithSource(f, c, st) ==
    LET r == RepoAt(c, "source") IN
    IF st = "migrated"
    THEN move_and_symlink(EarlierRun(f, r, Append(r, "Packages"), all_rpms(f, r)),
                          r, SrcAt(c))
    ELSE IF st = "synced"
    THEN f @@ Dirs({SrcAt(c), Append(SrcAt(c), "repodata")})
    ELSE IF st = "legacy"
    THEN f @@ (Append(r, "old-1.osg36.src.rpm")
                  :> File(FreshIno(f), Append(r, "old-1.osg36.src.rpm")))
    ELSE f

\* two channels, the source tree of one of them in any state
TwoChannelTrees ==
    {WithSource(ChannelTree("testing") @@ ChannelTree("release"), "testing", st) :
        st \in SourceStates}

\* repos that are named debug outside an architecture directory, or are
\* inside one under another name
NoarchDebug == Chan \o <<"noarch", "debug">>

ExtraRepo == BinRepo \o <<"extra">>

OddTree ==
    LET f == ChannelTree("testing")
        bar == Append(NoarchDebug, "bar-debuginfo-1.osg23.noarch.rpm")
        baz == Append(ExtraRepo, "baz-1.osg23.x86_64.rpm")
    IN  f @@ Dirs(Prefixes(Append(NoarchDebug, "repodata"))
                  \cup Prefixes(Append(ExtraRepo, "repodata")))
          @@ (bar :> File(FreshIno(f), bar))
          @@ (baz :> File(FreshIno(f) + 1, baz))

\* a replica path that is taken already, by a file of other content
StaleReplica ==
    BinRepo \o <<"Packages", "condor-update", RpmName("condor", "binary")>>

StaleTree ==
    LET f == ChannelTree("testing") IN
    f @@ Dirs(Prefixes(Dirname(StaleReplica)))
      @@ (StaleReplica :> File(FreshIno(f), <<"stale">>))

MirrorTrees ==
    {ChannelTree(c) : c \in Channels} \cup {AliasTree} \cup TwoChannelTrees
        \cup {OddTree, StaleTree}

NoFrame == [repo |-> <<>>, packages_dir |-> <<>>, dry_run |-> FALSE,
            all_rpms |-> <<>>, subdirs |-> <<>>, i |-> 0, j |-> 0, ret |-> FALSE]

\* the frame of a call migrate_one_repo(r, pd, dry_run=d)
Call(r, pd, d) == [NoFrame EXCEPT !.repo = r, !.packages_dir = pd, !.dry_run = d]

\* the package the loop of lines 114-150 is at
rpm == Append(frame.repo, frame.all_rpms[frame.i])

destfile == Append(destdir(frame.packages_dir, frame.subdirs,
                           frame.all_rpms[frame.i]),
                   frame.all_rpms[frame.i])

other_destdir == Append(frame.packages_dir, frame.subdirs[frame.j])

other_destfile == Append(other_destdir, frame.all_rpms[frame.i])

-----------------------------------------------------------------------------
(* The program, one step per filesystem call *)

Init ==
    /\ fs \in InitTrees
    /\ fs0 = fs
    /\ pc = "idle"
    /\ argv = NoArgv
    /\ args = NoArgs
    /\ ran = <<>>
    /\ fn = ""
    /\ gen = NoGen
    /\ repo = <<>>
    /\ dest = <<>>
    /\ frame = NoFrame
    /\ hist = [startFs |-> <<>>, entryFs |-> <<>>, reachedFs |-> <<>>,
               gated |-> FALSE, repeat |-> FALSE, lastCall |-> <<>>,
               lastFs |-> <<>>]
    /\ runs = 0
    /\ crashes = 0
    /\ lib = NoLib

\* a filesystem call: it succeeds, or raises and ends the program
Syscall(ok, after, next) ==
    IF ok THEN fs' = after /\ pc' = next
          ELSE fs' = fs /\ pc' = "raised"

\* the program is started with the command line a: once, and once more after
\* each invocation that was killed
Start(a) ==
    /\ pc = "idle"
    /\ runs <= crashes
    /\ runs' = runs + 1
    /\ argv' = a
    /\ pc' = "get_args"
    /\ hist' = [hist EXCEPT !.startFs = fs, !.gated = FALSE]
    /\ UNCHANGED <<fs, fs0, args, ran, fn, gen, repo, dest, frame, crashes, lib>>

Commands == [flags : Argvs, dry_run : BOOLEAN, dirs : DirArgs]

StartAny == \E a \in Commands : Start(a)

\* main, line 280
GetArgs ==
    /\ pc = "get_args"
    /\ args' = get_args(argv)
    /\ pc' = "main_source"
    /\ UNCHANGED <<fs, fs0, argv, ran, fn, gen, repo, dest, frame, hist, runs, crashes, lib>>

\* one "if <kind> in args.actions: migrate_<kind>(args)" of main
MainIf(at, kind, next) ==
    /\ pc = at
    /\ IF kind \in Range(args.actions)
       THEN /\ ran' = Append(ran, kind)
            /\ fn' = kind
            /\ gen' = GenStart(fs, args.dirs)
            /\ pc' = "repos"
       ELSE /\ pc' = next
            /\ UNCHANGED <<ran, fn, gen>>
    /\ UNCHANGED <<fs, fs0, argv, args, repo, dest, frame, hist, runs, crashes, lib>>

MainSource == MainIf("main_source", "source", "main_binary")

MainBinary == MainIf("main_binary", "binary", "main_debug")

MainDebug == MainIf("main_debug", "debug", "exit")

\* where main goes on when migrate_<fn> returns
AfterFn == [source |-> "main_binary", binary |-> "main_debug", debug |-> "exit"]

\* "for repo in repos(args.dirs)": the generator yields a repo, in any order
ReposYield ==
    /\ pc = "repos"
    /\ \E r \in gen.todo :
          /\ repo' = r
          /\ gen' = [gen EXCEPT !.todo = @ \ {r}]
    /\ pc' = "body"
    /\ UNCHANGED <<fs, fs0, argv, args, ran, fn, dest, frame, hist, runs, crashes, lib>>

\* the matches under one directory are used up: on to the next directory, or
\* the loop (and migrate_<fn>) ends
ReposAdvance ==
    /\ pc = "repos"
    /\ gen.todo = {}
    /\ IF gen.d < Len(args.dirs)
       THEN /\ gen' = [d |-> gen.d + 1, todo |-> Repos(fs, args.dirs[gen.d + 1])]
            /\ UNCHANGED <<pc, fn>>
       ELSE /\ gen' = NoGen
            /\ pc' = AfterFn[fn]
            /\ fn' = ""
    /\ UNCHANGED <<fs, fs0, argv, args, ran, repo, dest, frame, hist, runs, crashes, lib>>

\* migrate_one_repo is entered
Enter(r, pd) ==
    /\ frame' = Call(r, pd, args.dry_run)
    /\ pc' = "one_scan"

\* bookkeeping at the entry of migrate_one_repo(r, pd): the filesystem then,
\* and whether the call repeats the last completed one on an unchanged tree
AtEntry(h, r, pd) ==
    [h EXCEPT !.entryFs = fs,
              !.repeat = /\ ~args.dry_run
                         /\ h.lastCall = <<r, pd>>
                         /\ h.lastFs = fs]

\* mutant: only the symlink test, not the test of the new location
AlreadyMigrated_symlinkOnly(f, r, d) == IsSymlink(f, r)

\* migrate_source, lines 171-177: the tree counts as migrated already
AlreadyMigrated(f, r, d) == IsSymlink(f, r) \/ Exists(f, d)

\* migrate_source, lines 169-180
SourceBody ==
    /\ pc = "body" /\ fn = "source"
    /\ LET d == Append(Dirname(Dirname(Resolve(fs, repo))), "src") IN
       IF Len(repo) < 2 \/ SubSeq(repo, Len(repo) - 1, Len(repo)) # <<"source", "SRPMS">>
       THEN /\ pc' = "repos"
            /\ UNCHANGED <<fn, gen, dest, frame, hist>>
       ELSE IF AlreadyMigrated(fs, repo, d)
       THEN /\ pc' = AfterFn[fn]
            /\ fn' = ""
            /\ gen' = NoGen
            /\ dest' = d
            /\ hist' = [hist EXCEPT !.reachedFs = fs,
                                    !.gated = IsSymlink(fs, repo) \/ Exists(fs, d)]
            /\ UNCHANGED frame
       ELSE /\ Enter(repo, Append(repo, "Packages"))
            /\ dest' = d
            /\ hist' = [AtEntry(hist, repo, Append(repo, "Packages")) EXCEPT
                           !.reachedFs = fs,
                           !.gated = IsSymlink(fs, repo) \/ Exists(fs, d)]
            /\ UNCHANGED <<fn, gen>>
    /\ UNCHANGED <<fs, fs0, argv, args, ran, repo, runs, crashes, lib>>

\* mutant: the rename is not held back by a dry run
SourceMayRename_dry == frame.ret

\* mutant: the rename does not wait for migrate_one_repo's verdict
SourceMayRename_always == ~args.dry_run

\* migrate_source, lines 180-182: the tree is renamed
SourceMayRename == frame.ret /\ ~args.dry_run

\* migrate_source, lines 180-185, after migrate_one_repo has returned
SourceRet ==
    /\ pc = "source_ret"
    /\ pc' = IF SourceMayRename THEN "source_rename" ELSE "repos"
    /\ UNCHANGED <<fs, fs0, argv, args, ran, fn, gen, repo, dest, frame, hist,
                   runs, crashes, lib>>

\* move_and_symlink(repo, dest), line 49
SourceRename ==
    /\ pc = "source_rename"
    /\ Syscall(RenameOk(fs, repo, dest), Rename(fs, repo, dest), "source_symlink")
    /\ UNCHANGED <<fs0, argv, args, ran, fn, gen, repo, dest, frame, hist,
                   runs, crashes, lib>>

\* move_and_symlink(repo, dest), line 50
SourceSymlink ==
    /\ pc = "source_symlink"
    /\ Syscall(SymlinkOk(fs, repo),
               Symlink(fs, RelPath(dest, Dirname(repo)), repo), "repos")
    /\ UNCHANGED <<fs0, argv, args, ran, fn, gen, repo, dest, frame, hist,
                   runs, crashes, lib>>

\* migrate_binary, lines 193-196
BinaryBody ==
    /\ pc = "body" /\ fn = "binary"
    /\ IF Basename(repo) \notin Range(BINARY_ARCHES)
       THEN /\ pc' = "repos"
            /\ UNCHANGED <<frame, hist>>
       ELSE /\ Enter(repo, Append(repo, "Packages"))
            /\ hist' = AtEntry(hist, repo, Append(repo, "Packages"))
    /\ UNCHANGED <<fs, fs0, argv, args, ran, fn, gen, repo, dest, runs, crashes, lib>>

\* migrate_debug, lines 208-211
DebugBody ==
    /\ pc = "body" /\ fn = "debug"
    /\ IF /\ Basename(repo) # "debug"
          /\ (Len(repo) < 2 \/ repo[Len(repo) - 1] \notin Range(BINARY_ARCHES))
       THEN /\ pc' = "repos"
            /\ UNCHANGED <<frame, hist>>
       ELSE /\ Enter(repo, Append(Dirname(repo), "Packages"))
            /\ hist' = AtEntry(hist, repo, Append(Dirname(repo), "Packages"))
    /\ UNCHANGED <<fs, fs0, argv, args, ran, fn, gen, repo, dest, runs, crashes, lib>>

\* migrate_one_repo, lines 106-112: list, sort, refuse a legacy repo
OneScan ==
    /\ pc = "one_scan"
    /\ LET rpms == all_rpms(fs, frame.repo) IN
       IF LegacyFound(rpms)
       THEN /\ frame' = [frame EXCEPT !.all_rpms = rpms, !.ret = FALSE]
            /\ pc' = "one_ret"
       ELSE /\ frame' = [frame EXCEPT
                           !.all_rpms = rpms,
                           !.subdirs = get_condor_package_subdirs(fs, frame.repo),
                           !.i = 1]
            /\ pc' = "one_file"
    /\ UNCHANGED <<fs, fs0, argv, args, ran, fn, gen, repo, dest, hist, runs, crashes, lib>>

\* mutant: no package is recognised as migrated already
SkipSymlink_never(f, path) == FALSE

\* line 115: the package is left alone
SkipSymlink(f, path) == IsSymlink(f, path)

\* the loop of line 114 is at its end: return True (line 152)
OneDone ==
    /\ pc = "one_file"
    /\ frame.i > Len(frame.all_rpms)
    /\ frame' = [frame EXCEPT !.ret = TRUE]
    /\ pc' = "one_ret"
    /\ UNCHANGED <<fs, fs0, argv, args, ran, fn, gen, repo, dest, hist, runs, crashes, lib>>

\* lines 114-136, the head of the loop: a symlink is skipped, a dry run only
\* logs, otherwise the package is about to be moved
OneFile ==
    /\ pc = "one_file"
    /\ frame.i <= Len(frame.all_rpms)
    /\ IF SkipSymlink(fs, rpm) \/ frame.dry_run
       THEN /\ frame' = [frame EXCEPT !.i = @ + 1]
            /\ UNCHANGED pc
       ELSE /\ pc' = "one_mkdir"
            /\ UNCHANGED frame
    /\ UNCHANGED <<fs, fs0, argv, args, ran, fn, gen, repo, dest, hist, runs, crashes, lib>>

\* line 135
OneMkdir ==
    /\ pc = "one_mkdir"
    /\ Syscall(MkdirOk(fs, Dirname(destfile)), MkdirP(fs, Dirname(destfile)),
               "one_rename")
    /\ UNCHANGED <<fs0, argv, args, ran, fn, gen, repo, dest, frame, hist, runs, crashes, lib>>

\* move_and_symlink(rpm, destfile), line 49
OneRename ==
    /\ pc = "one_rename"
    /\ Syscall(RenameOk(fs, rpm, destfile), Rename(fs, rpm, destfile), "one_symlink")
    /\ UNCHANGED <<fs0, argv, args, ran, fn, gen, repo, dest, frame, hist, runs, crashes, lib>>

\* the frame when package i is done with: on to the next package
NextFile(fr) == [fr EXCEPT !.i = @ + 1, !.j = 0]

\* the frame and position when replica bucket j is next (lines 138, 144)
ToReplica(fr, j) ==
    IF IsCondorRpm(fr.all_rpms[fr.i]) /\ j <= Len(fr.subdirs)
    THEN <<[fr EXCEPT !.j = j], "one_rep_mkdir">>
    ELSE <<NextFile(fr), "one_file">>

\* move_and_symlink(rpm, destfile), line 50, then on to the replicas
OneSymlink ==
    /\ pc = "one_symlink"
    /\ Syscall(SymlinkOk(fs, rpm),
               Symlink(fs, RelPath(destfile, Dirname(rpm)), rpm),
               ToReplica(frame, 2)[2])
    /\ frame' = IF SymlinkOk(fs, rpm) THEN ToReplica(frame, 2)[1] ELSE frame
    /\ UNCHANGED <<fs0, argv, args, ran, fn, gen, repo, dest, hist, runs, crashes, lib>>

\* line 149
OneRepMkdir ==
    /\ pc = "one_rep_mkdir"
    /\ Syscall(MkdirOk(fs, other_destdir), MkdirP(fs, other_destdir), "one_link")
    /\ UNCHANGED <<fs0, argv, args, ran, fn, gen, repo, dest, frame, hist, runs, crashes, lib>>

\* hardlink_or_copy_file, line 59: os.link makes the hard link.  rpm is by
\* now the compatibility symlink; whether link(2) follows it is up to the
\* platform
OneLink ==
    /\ pc = "one_link"
    /\ \E follow \in BOOLEAN :
          /\ HardlinkOk(fs, rpm, other_destfile, follow)
          /\ fs' = Hardlink(fs, rpm, other_destfile, follow)
    /\ frame' = ToReplica(frame, frame.j + 1)[1]
    /\ pc' = ToReplica(frame, frame.j + 1)[2]
    /\ UNCHANGED <<fs0, argv, args, ran, fn, gen, repo, dest, hist, runs, crashes, lib>>

\* hardlink_or_copy_file, lines 59-60: os.link raises OSError (the replica
\* exists, or the filesystem refuses the link)
OneLinkFails ==
    /\ pc = "one_link"
    /\ pc' = "one_copy"
    /\ UNCHANGED <<fs, fs0, argv, args, ran, fn, gen, repo, dest, frame, hist,
                   runs, crashes, lib>>

\* hardlink_or_copy_file, line 61
OneCopy ==
    /\ pc = "one_copy"
    /\ Syscall(Copy2Ok(fs, rpm, other_destfile), Copy2(fs, rpm, other_destfile),
               ToReplica(frame, frame.j + 1)[2])
    /\ frame' = IF Copy2Ok(fs, rpm, other_destfile)
                THEN ToReplica(frame, frame.j + 1)[1] ELSE frame
    /\ UNCHANGED <<fs0, argv, args, ran, fn, gen, repo, dest, hist, runs, crashes, lib>>

\* migrate_one_repo returns to migrate_<fn>
OneRet ==
    /\ pc = "one_ret"
    /\ pc' = IF fn = "source" THEN "source_ret" ELSE "repos"
    /\ hist' = IF frame.ret /\ ~frame.dry_run
               THEN [hist EXCEPT !.lastCall = <<frame.repo, frame.packages_dir>>,
                                 !.lastFs = fs]
               ELSE hist
    /\ UNCHANGED <<fs, fs0, argv, args, ran, fn, gen, repo, dest, frame, runs, crashes, lib>>

\* the process is gone: its variables with it
Gone ==
    /\ pc' = "idle"
    /\ argv' = NoArgv
    /\ args' = NoArgs
    /\ ran' = <<>>
    /\ fn' = ""
    /\ gen' = NoGen
    /\ repo' = <<>>
    /\ dest' = <<>>
    /\ frame' = NoFrame
    /\ UNCHANGED <<fs, fs0, hist, runs, lib>>

\* main returns 0 (line 288), or an exception ended the program
Exit ==
    /\ pc \in {"exit", "raised"}
    /\ Gone
    /\ UNCHANGED crashes

\* the process is killed, wherever it is
Interrupt ==
    /\ pc \notin {"idle", "exit", "raised"}
    /\ crashes < MaxCrashes
    /\ crashes' = crashes + 1
    /\ Gone

OneRepo ==
    \/ OneScan \/ OneDone \/ OneFile \/ OneMkdir \/ OneRename \/ OneSymlink
    \/ OneRepMkdir \/ OneLink \/ OneLinkFails \/ OneCopy \/ OneRet

Next ==
    \/ StartAny \/ GetArgs \/ MainSource \/ MainBinary \/ MainDebug
    \/ ReposYield \/ ReposAdvance
    \/ SourceBody \/ SourceRet \/ SourceRename \/ SourceSymlink
    \/ BinaryBody \/ DebugBody
    \/ OneRepo
    \/ Exit

Spec == Init /\ [][Next]_vars

\* the binary migration alone, rerun after it was killed
CrashCmd == [flags |-> <<"--binary">>, dry_run |-> FALSE, dirs |-> <<M>>]

StartBinary == Start(CrashCmd)

NextCrash ==
    \/ StartBinary \/ GetArgs \/ MainSource \/ MainBinary \/ MainDebug
    \/ ReposYield \/ ReposAdvance
    \/ BinaryBody
    \/ OneRepo
    \/ Exit
    \/ Interrupt

SpecCrash == Init /\ [][NextCrash]_vars

\* the migration of one kind on the wider mirrors, by the mirror root or by
\* the symlink to a channel
InitMirror ==
    /\ fs \in MirrorTrees
    /\ fs0 = fs
    /\ pc = "idle"
    /\ argv = NoArgv
    /\ args = NoArgs
    /\ ran = <<>>
    /\ fn = ""
    /\ gen = NoGen
    /\ repo = <<>>
    /\ dest = <<>>
    /\ frame = NoFrame
    /\ hist = [startFs |-> <<>>, entryFs |-> <<>>, reachedFs |-> <<>>,
               gated |-> FALSE, repeat |-> FALSE, lastCall |-> <<>>,
               lastFs |-> <<>>]
    /\ runs = 0
    /\ crashes = 0
    /\ lib = NoLib

MirrorCommands ==
    [flags : {<<"--source">>, <<"--binary">>, <<"--debug">>},
     dry_run : {FALSE}, dirs : {<<M>>, <<Cur>>}]

StartMirror == \E a \in MirrorCommands : Start(a)

NextMirror ==
    \/ StartMirror \/ GetArgs \/ MainSource \/ MainBinary \/ MainDebug
    \/ ReposYield \/ ReposAdvance
    \/ SourceBody \/ SourceRet \/ SourceRename \/ SourceSymlink
    \/ BinaryBody \/ DebugBody
    \/ OneRepo
    \/ Exit

SpecMirror == InitMirror /\ [][NextMirror]_vars

-----------------------------------------------------------------------------
(* distrepos: what the functions share *)

\* the variables of the migration program, which no distrepos function
\* touches
migration == <<fs0, argv, args, ran, fn, gen, repo, dest, frame, crashes>>

\* PurePath.relative_to(base): the path below base; ValueError when p is
\* not below base
RelativeTo(p, base) == SubSeq(p, Len(base) + 1, Len(p))

RelativeToOk(p, base) == IsPrefix(base, p)

\* Path.unlink()
Unlink(f, p) == [q \in DOMAIN f \ {LPath(f, p)} |-> f[q]]

\* the names in a directory (Path.iterdir)
Listing(f, d) ==
    {Basename(q) : q \in {x \in DOMAIN f : Len(x) > 0 /\ Dirname(x) = Resolve(f, d)}}

\* the function has returned, or an exception has left it: the caller goes on
LibExit ==
    /\ pc \in {"lib_ret", "raised"}
    /\ lib.f # ""
    /\ pc' = "idle"
    /\ lib' = NoLib
    /\ hist' = [hist EXCEPT !.lastCall = IF pc = "lib_ret" THEN lib ELSE NoLib,
                            !.lastFs = fs]
    /\ UNCHANGED <<fs, runs>>
    /\ UNCHANGED migration

-----------------------------------------------------------------------------
(* distrepos.symlink_utils.link_latest_release *)

RELEASE_RPM == "osg-release"

DigitChars == "0123456789"

IsDigit(c) == \E k \in 1..Len(DigitChars) : Char(DigitChars, k) = c

DigitVal(c) == (CHOOSE k \in 1..Len(DigitChars) : Char(DigitChars, k) = c) - 1

\* int(s) of a string of digits
RECURSIVE ToInt(_)
ToInt(s) ==
    IF Len(s) = 0 THEN 0
    ELSE 10 * ToInt(SubSeq(s, 1, Len(s) - 1)) + DigitVal(Char(s, Len(s)))

\* the length of the run of digits of s that begins at position i
RECURSIVE DigitRun(_, _)
DigitRun(s, i) ==
    IF i <= Len(s) /\ IsDigit(Char(s, i)) THEN 1 + DigitRun(s, i + 1) ELSE 0

\* mutant: a name without a release number counts as release 1
get_release_number_orOne(name) ==
    LET hits == {k \in 1..Len(name) :
                    /\ Char(name, k) = "-"
                    /\ DigitRun(name, k + 1) > 0
                    /\ HasAt(name, k + 1 + DigitRun(name, k + 1), ".osg")}
    IN  IF hits = {} THEN 1
        ELSE LET k == CHOOSE x \in hits : \A y \in hits : x <= y
             IN  ToInt(SubSeq(name, k + 1, k + DigitRun(name, k + 1)))

\* _get_release_number: RELEASE_PATTERN = "-([0-9]+)\.osg" searched in the
\* name, the leftmost match taken; 0 without a match
get_release_number(name) ==
    LET hits == {k \in 1..Len(name) :
                    /\ Char(name, k) = "-"
                    /\ DigitRun(name, k + 1) > 0
                    /\ HasAt(name, k + 1 + DigitRun(name, k + 1), ".osg")}
    IN  IF hits = {} THEN 0
        ELSE LET k == CHOOSE x \in hits : \A y \in hits : x <= y
             IN  ToInt(SubSeq(name, k + 1, k + DigitRun(name, k + 1)))

\* root.rglob("release/<base_arch>/**/osg-release*"): the entries named
\* osg-release*, at any depth under a directory release/<base_arch> that is
\* at any depth under root
ReleaseGlob(f, root, base_arch) ==
    LET top == Resolve(f, root) IN
    {q \in DOMAIN f :
        /\ IsPrefix(top, q)
        /\ \E i \in (Len(top) + 1)..(Len(q) - 2) :
              q[i] = "release" /\ q[i + 1] = base_arch
        /\ GlobMatch(RELEASE_RPM \o "*", Basename(q))}

\* lines 103-106
release_rpms(f, root, base_arch) ==
    {q \in ReleaseGlob(f, root, base_arch) : get_release_number(Basename(q)) > 0}

\* line 97
series_root(o, series) == Append(o, series.dest)

\* line 112
latest_symlink(o, series, dver) ==
    Append(series_root(o, series),
           "osg-" \o series.name \o "-" \o dver \o "-release-latest.rpm")

\* the mirror the release series are published in
DestRoot == <<"dest">>

Series23 == [name |-> "23-main", dest |-> "23-main", ver |-> "23",
             arches |-> <<"x86_64", "aarch64">>, dvers |-> <<"el8", "el9">>]

Series24 == [name |-> "24-main", dest |-> "24-main", ver |-> "24",
             arches |-> <<"x86_64", "aarch64">>, dvers |-> <<"el9">>]

ReleaseSeries == <<Series23, Series24>>

\* the series/OS-version pairs, in the order of the loops of lines 96, 100
Pairs == {<<si, di>> : si \in DOMAIN ReleaseSeries, di \in 1..2} \ {<<2, 2>>}

\* where a release package of a series and OS version is, by the kind of
\* package: release 5 and release 12 directly under the primary
\* architecture, release 10 deeper under it, release 11 under the other
\* architecture, and one without a release number
ReleaseFile(series, dver, kind) ==
    LET pre == <<"dest", series.dest, dver, "release">>
        name(n) == "osg-release-" \o series.ver \o n \o ".osg" \o series.ver \o "."
                       \o dver \o ".noarch.rpm"
    IN  CASE kind = "r5" -> pre \o <<"x86_64", name("-5")>>
          [] kind = "r10" -> pre \o <<"x86_64", "Packages", "o", name("-10")>>
          [] kind = "r11" -> pre \o <<"aarch64", name("-11")>>
          [] kind = "r12" -> pre \o <<"x86_64", name("-12")>>
          [] OTHER -> pre \o <<"x86_64", "osg-release-" \o series.ver \o "." \o dver
                                             \o ".noarch.rpm">>

\* what a series/OS-version pair holds at first
Stocks == {{}, {"plain"}, {"r5", "r10"}, {"r5", "r11"}}

\* the tree with the packages stock[pair] for each pair
ReleaseTree(stock) ==
    LET there == UNION {{ReleaseFile(ReleaseSeries[pr[1]],
                                     ReleaseSeries[pr[1]].dvers[pr[2]], k) : k \in stock[pr]} :
                           pr \in Pairs}
        skeleton == UNION {Prefixes(<<"dest", ReleaseSeries[pr[1]].dest,
                                      ReleaseSeries[pr[1]].dvers[pr[2]], "release", a>>) :
                              pr \in Pairs, a \in {"x86_64", "aarch64"}}
    IN  Dirs(skeleton \cup UNION {Prefixes(Dirname(q)) : q \in there})
            @@ [q \in there |-> File(1 + Cardinality({x \in there : StrLess(Basename(x), Basename(q))
                                                          \/ (Basename(x) = Basename(q) /\ Len(x) < Len(q))}), q)]

ReleaseTrees == {ReleaseTree(stock) : stock \in [Pairs -> Stocks]}

\* link_latest_release is called
LlrStart ==
    /\ pc = "idle"
    /\ runs < MaxCalls
    /\ runs' = runs + 1
    /\ lib' = [f |-> "link_latest_release", dest_root |-> DestRoot,
               release_series |-> ReleaseSeries, s |-> 1, d |-> 1,
               latest |-> <<>>, result |-> <<>>]
    /\ hist' = [hist EXCEPT !.startFs = fs]
    /\ pc' = "llr_pair"
    /\ UNCHANGED fs
    /\ UNCHANGED migration

\* lines 96-112: the loops are over (line 115), or the pair has no release
\* package with a number (line 109), or the latest one is picked: sort() is
\* stable, so of several packages of the highest number any may come first
LlrPair ==
    /\ pc = "llr_pair"
    /\ IF lib.s > Len(lib.release_series)
       THEN /\ lib' = [lib EXCEPT !.result = <<TRUE, "">>]
            /\ pc' = "lib_ret"
       ELSE LET series == lib.release_series[lib.s]
                rpms == release_rpms(fs, Append(series_root(lib.dest_root, series),
                                                series.dvers[lib.d]),
                                     series.arches[1])
            IN  IF rpms = {}
                THEN /\ lib' = [lib EXCEPT !.result =
                                   <<FALSE, "No valid release RPMs found for series "
                                               \o series.name>>]
                     /\ pc' = "lib_ret"
                ELSE /\ \E q \in rpms :
                           /\ \A x \in rpms : get_release_number(Basename(x))
                                                  <= get_release_number(Basename(q))
                           /\ lib' = [lib EXCEPT !.latest = q]
                     /\ pc' = "llr_symlink"
    /\ UNCHANGED <<fs, hist, runs>>
    /\ UNCHANGED migration

\* line 113, and on to the next OS version, or the next series
LlrSymlink ==
    /\ pc = "llr_symlink"
    /\ LET series == lib.release_series[lib.s]
           link == latest_symlink(lib.dest_root, series, series.dvers[lib.d])
       IN  /\ Syscall(SymlinkOk(fs, link),
                      Symlink(fs, RelativeTo(lib.latest, Dirname(link)), link),
                      "llr_pair")
           /\ lib' = IF ~SymlinkOk(fs, link) THEN lib
                     ELSE IF lib.d < Len(series.dvers)
                     THEN [lib EXCEPT !.d = @ + 1]
                     ELSE [lib EXCEPT !.s = @ + 1, !.d = 1]
    /\ UNCHANGED <<hist, runs>>
    /\ UNCHANGED migration

\* between two calls a newer release package of some series and OS version
\* is published
Publish ==
    /\ pc = "idle"
    /\ runs > 0
    /\ \E pr \in Pairs :
          LET q == ReleaseFile(ReleaseSeries[pr[1]], ReleaseSeries[pr[1]].dvers[pr[2]],
                               "r12")
          IN  /\ q \notin DOMAIN fs
              /\ fs' = Put(fs, q, File(FreshIno(fs), q))
    /\ UNCHANGED <<pc, lib, hist, runs>>
    /\ UNCHANGED migration

InitLatest ==
    /\ fs \in ReleaseTrees
    /\ fs0 = fs
    /\ pc = "idle"
    /\ argv = NoArgv
    /\ args = NoArgs
    /\ ran = <<>>
    /\ fn = ""
    /\ gen = NoGen
    /\ repo = <<>>
    /\ dest = <<>>
    /\ frame = NoFrame
    /\ hist = [startFs |-> <<>>, entryFs |-> <<>>, reachedFs |-> <<>>,
               gated |-> FALSE, repeat |-> FALSE, lastCall |-> <<>>,
               lastFs |-> <<>>]
    /\ runs = 0
    /\ crashes = 0
    /\ lib = NoLib

NextLatest == LlrStart \/ LlrPair \/ LlrSymlink \/ Publish \/ LibExit

SpecLatest == InitLatest /\ [][NextLatest]_vars

-----------------------------------------------------------------------------
(* distrepos.symlink_utils.link_static_data *)

\* options.dest_root
StaticDest == <<"/", "dest">>

\* the default of the parameter repo_name
repo_name == "osg"

\* options.static_root: none, a relative path, a directory beside the
\* destination, a directory inside the destination's data directory
NoRoot == <<>>

OutsideRoot == <<"/", "static">>

NestedRoot == <<"/", "dest", "osg", "st">>

StaticRoots == {NoRoot, <<"static">>, OutsideRoot, NestedRoot}

\* Path('/') in p.parents
IsAbsolute(p) == Len(p) > 1 /\ Head(p) = "/"

\* base in p.parents: the parents of a path are its proper prefixes, as text
InParents(base, p) == IsPrefix(base, p) /\ Len(base) < Len(p)

\* Path.mkdir(parents=False)
MkdirHere(f, p) == Put(f, LPath(f, p), Dir)

MkdirHereOk(f, p) == IsDir(f, Dirname(p)) /\ ~LExists(f, p)

\* Path.readlink()
Readlink(f, p) == f[LPath(f, p)].target

\* the entries of the static source, and what the destination's data
\* directory holds at first under the names a, b and gone: nothing; a
\* symlink with the entry's absolute path; a symlink to another place; a
\* real directory; a symlink with the absolute path of an entry that is no
\* longer there
EntrySets == {{}, {"a"}, {"a", "b"}}

DestStates == [a : {"none", "abs", "other"}, b : {"none", "abs", "dir"},
               gone : {"none", "abs"}]

StaticTree(root, entries, st) ==
    LET src == Tail(root) \o <<repo_name>>
        dst == <<"dest", repo_name>>
        at(n) == CASE st[n] = "abs" -> Link(root \o <<repo_name, n>>)
                   [] st[n] = "other" -> Link(<<"/", "elsewhere", n>>)
                   [] OTHER -> Dir
    IN  Dirs(Prefixes(src) \cup Prefixes(dst) \cup {Append(src, n) : n \in entries})
            @@ [q \in {Append(dst, n) : n \in {x \in {"a", "b", "gone"} : st[x] # "none"}}
                   |-> at(Basename(q))]

StaticTrees ==
    {StaticTree(root, entries, st) :
        root \in {OutsideRoot, NestedRoot}, entries \in EntrySets, st \in DestStates}
    \cup {Dirs(Prefixes(<<"static", repo_name, "a">>) \cup Prefixes(<<"dest">>))}

\* link_static_data is called: lines 26-41, and the listing of line 45
LsdStart ==
    /\ pc = "idle"
    /\ runs < MaxCalls
    /\ runs' = runs + 1
    /\ hist' = [hist EXCEPT !.startFs = fs]
    /\ \E root \in StaticRoots :
          LET static_src == Append(root, repo_name)
              data_dst == Append(StaticDest, repo_name)
              call == [f |-> "link_static_data", static_root |-> root,
                       static_src |-> static_src, data_dst |-> data_dst,
                       todo |-> {}, result |-> <<>>]
              return(ok, msg) == /\ lib' = [call EXCEPT !.result = <<ok, msg>>]
                                 /\ pc' = "lib_ret"
                                 /\ fs' = fs
          IN  IF root = NoRoot THEN return(TRUE, "")
              ELSE IF ~IsAbsolute(root)
              THEN return(FALSE, "Static data path must be absolute")
              ELSE IF ~Exists(fs, static_src)
              THEN return(FALSE, "Static data path does not exist")
              ELSE IF ~Exists(fs, data_dst)
              THEN /\ Syscall(MkdirHereOk(fs, data_dst), MkdirHere(fs, data_dst),
                              "lsd_clean")
                   /\ lib' = call
              ELSE /\ lib' = [call EXCEPT !.todo = Listing(fs, data_dst)]
                   /\ pc' = "lsd_clean"
                   /\ fs' = fs
    /\ UNCHANGED migration

\* lines 45-47, one entry of the data directory at a time; then the listing
\* of line 50
LsdClean ==
    /\ pc = "lsd_clean"
    /\ IF lib.todo = {}
       THEN /\ lib' = [lib EXCEPT !.todo = Listing(fs, lib.static_src)]
            /\ pc' = "lsd_link"
            /\ fs' = fs
       ELSE \E n \in lib.todo :
               LET pth == Append(lib.data_dst, n) IN
               /\ lib' = [lib EXCEPT !.todo = @ \ {n}]
               /\ pc' = pc
               /\ fs' = IF /\ IsSymlink(fs, pth)
                           /\ InParents(lib.static_src, Readlink(fs, pth))
                           /\ ~Exists(fs, Readlink(fs, pth))
                        THEN Unlink(fs, pth)
                        ELSE fs
    /\ UNCHANGED <<hist, runs>>
    /\ UNCHANGED migration

\* lines 50-66, one entry of the static source at a time
LsdLink ==
    /\ pc = "lsd_link"
    /\ IF lib.todo = {}
       THEN /\ lib' = [lib EXCEPT !.result = <<TRUE, "">>]
            /\ pc' = "lib_ret"
            /\ fs' = fs
       ELSE \E n \in lib.todo :
               LET pth == Append(lib.static_src, n)
                   dst == Append(lib.data_dst, n)
                   g == IF IsSymlink(fs, dst) THEN Unlink(fs, dst) ELSE fs
               IN  IF IsSymlink(fs, dst) /\ Readlink(fs, dst) = pth
                   THEN /\ lib' = [lib EXCEPT !.todo = @ \ {n}]
                        /\ pc' = pc
                        /\ fs' = fs
                   ELSE IF ~IsSymlink(fs, dst) /\ Exists(fs, dst)
                   THEN /\ lib' = [lib EXCEPT !.result =
                                      <<FALSE, "Expected static data symlink is not a symlink">>]
                        /\ pc' = "lib_ret"
                        /\ fs' = fs
                   ELSE /\ lib' = [lib EXCEPT !.todo = @ \ {n}]
                        /\ IF RelativeToOk(pth, lib.data_dst)
                           THEN Syscall(SymlinkOk(g, dst),
                                        Symlink(g, RelativeTo(pth, lib.data_dst), dst),
                                        "lsd_link")
                           ELSE fs' = g /\ pc' = "raised"
    /\ UNCHANGED <<hist, runs>>
    /\ UNCHANGED migration

\* between two calls an entry of a static source is removed
Retire ==
    /\ pc = "idle"
    /\ runs > 0
    /\ \E root \in {OutsideRoot, NestedRoot}, n \in {"a", "b"} :
          /\ Tail(root) \o <<repo_name, n>> \in DOMAIN fs
          /\ fs' = [q \in DOMAIN fs \ {Tail(root) \o <<repo_name, n>>} |-> fs[q]]
    /\ UNCHANGED <<pc, lib, hist, runs>>
    /\ UNCHANGED migration

InitStatic ==
    /\ fs \in StaticTrees
    /\ fs0 = fs
    /\ pc = "idle"
    /\ argv = NoArgv
    /\ args = NoArgs
    /\ ran = <<>>
    /\ fn = ""
    /\ gen = NoGen
    /\ repo = <<>>
    /\ dest = <<>>
    /\ frame = NoFrame
    /\ hist = [startFs |-> <<>>, entryFs |-> <<>>, reachedFs |-> <<>>,
               gated |-> FALSE, repeat |-> FALSE, lastCall |-> <<>>,
               lastFs |-> <<>>]
    /\ runs = 0
    /\ crashes = 0
    /\ lib = NoLib

NextStatic == LsdStart \/ LsdClean \/ LsdLink \/ Retire \/ LibExit

SpecStatic == InitStatic /\ [][NextStatic]_vars

-----------------------------------------------------------------------------
(* distrepos.tarball_sync *)

\* options.working_root, dest_root, previous_root, each with
\* options.tarball_install
working_dir == <<"work", "ti">>

dest_dir == <<"dest", "ti">>

prev_dir == <<"prev", "ti">>

WN_TARBALL_NAME_PREFIX == "osg-wn-client-latest"

\* str.split('.')
RECURSIVE SplitDot(_)
SplitDot(s) ==
    LET dots == {k \in 1..Len(s) : Char(s, k) = "."} IN
    IF dots = {} THEN <<s>>
    ELSE LET k == CHOOSE x \in dots : \A y \in dots : x <= y
         IN  <<SubSeq(s, 1, k - 1)>> \o SplitDot(StrTail(s, k + 1))

\* TarballInfo(tarball_path): the three fields are set only when the name
\* has five parts or more
TarballInfo(tarball_path) ==
    LET name_parts == SplitDot(Basename(tarball_path))
        n == Len(name_parts)
    IN  IF n >= 5
        THEN [full_path |-> tarball_path, parsed |-> TRUE, arch |-> name_parts[n - 2],
              os |-> name_parts[n - 3], date_string |-> name_parts[n - 4]]
        ELSE [full_path |-> tarball_path, parsed |-> FALSE, arch |-> "", os |-> "",
              date_string |-> ""]

\* TarballInfo.is_valid, for an object whose fields are set
is_valid(i) == Len(i.date_string) > 0 /\ Len(i.os) > 0 /\ Len(i.arch) > 0

\* the paths of the entries of a directory (Path.iterdir)
Entries(f, d) == {Append(d, n) : n \in Listing(f, d)}

\* what the upstream holds under the tarball directory: one of these trees
x86 == <<"23", "x86_64">>

Upstreams ==
    { {x86 \o <<"c.0101.el9.x86_64.tar.gz">>, x86 \o <<"c.0202.el9.x86_64.tar.gz">>,
       x86 \o <<"c.0101.el8.x86_64.tar.gz">>},
      {x86 \o <<"c.0101.el9.x86_64.tar.gz">>,
       <<"23", "aarch64", "c.0101.el9.aarch64.tar.gz">>,
       <<"23", "aarch64", "d.0101.el9.x86_64.tar.gz">>},
      {x86 \o <<"c.0101.el9.x86_64.tar.gz">>, x86 \o <<"README.txt">>},
      {x86 \o <<"c.0202.el9.x86_64.tar.gz">>, x86 \o <<"a..el7.x86_64.tar.gz">>,
       <<"24", "x86_64", "c.0303.el9.x86_64.tar.gz">>, <<"top.txt">>} }

\* the inode of an upstream file, once it is stored
TarballIno(q) ==
    1 + Cardinality({x \in UNION Upstreams : StrLess(Basename(x), Basename(q))})

\* distrepos.util.rsync_with_link, as far as it got: the files of u are in
\* the directory at
Received(f, at, u) ==
    LET g == [q \in {at \o x : x \in UNION {Prefixes(Dirname(y)) : y \in u}}
                    \ DOMAIN f |-> Dir]
        h == [q \in {at \o x : x \in u} |-> File(TarballIno(SubSeq(q, Len(at) + 1, Len(q))),
                                                SubSeq(q, Len(at) + 1, Len(q)))]
    IN  h @@ g @@ f

\* distrepos.tag_run.update_release_repos(dest_dir, working_dir, prev_dir):
\* what was published becomes the previous snapshot, and the working
\* directory is published
update_release_repos(f, d, w, p) == Rename(Rename(f, d, p), w, d)

\* mutant: a full disk is a failure like any other
tarball_sync_noRaise(ok, disk_is_full) ==
    IF ok THEN <<"return", TRUE, "">>
    ELSE <<"return", FALSE, "Error pulling tarball clients">>

\* tarball_sync, lines 25-32: what becomes of the outcome of the rsync
tarball_sync(ok, disk_is_full) ==
    IF ok THEN <<"return", TRUE, "">>
    ELSE IF disk_is_full THEN <<"raise", FALSE, "DiskFullError">>
    ELSE <<"return", FALSE, "Error pulling tarball clients">>

\* mutant: the working directory is published whatever
\* create_latest_symlinks returned
after_symlinks_always(f, ok, err) ==
    [fs |-> update_release_repos(f, dest_dir, working_dir, prev_dir),
     published |-> TRUE, result |-> <<TRUE, "">>]

\* update_tarball_dirs, lines 123-129: what follows the return of
\* create_latest_symlinks
after_symlinks(f, ok, err) ==
    IF ~ok THEN [fs |-> f, published |-> FALSE, result |-> <<FALSE, err>>]
    ELSE [fs |-> update_release_repos(f, dest_dir, working_dir, prev_dir),
          published |-> TRUE, result |-> <<TRUE, "">>]

\* update_tarball_dirs is called: lines 109-115
TbStart ==
    /\ pc = "idle"
    /\ runs < MaxCalls
    /\ runs' = runs + 1
    /\ hist' = [hist EXCEPT !.startFs = fs]
    /\ lib' = [f |-> "update_tarball_dirs", synced |-> "", linked |-> "",
               published |-> FALSE,
               series_todo |-> {}, series_dir |-> <<>>, arch_todo |-> {},
               infos |-> {}, arch |-> "", os_todo |-> {}, result |-> <<>>,
               error |-> ""]
    /\ Syscall(MkdirOk(fs, working_dir) /\ MkdirOk(fs, dest_dir) /\ MkdirOk(fs, prev_dir),
               MkdirP(MkdirP(MkdirP(fs, working_dir), dest_dir), prev_dir),
               "tb_sync")
    /\ UNCHANGED migration

\* lines 118-120, tarball_sync: the rsync ends well, or fails with the full
\* disk showing in its output, or fails otherwise (synced keeps which); on
\* a failure the working directory has received the upstream's files or
\* has not
TbSync ==
    /\ pc = "tb_sync"
    /\ \E u \in Upstreams, ok \in BOOLEAN, disk_is_full \in BOOLEAN, got \in BOOLEAN :
          LET out == tarball_sync(ok, disk_is_full)
              rsync == IF ok THEN "ok" ELSE IF disk_is_full THEN "full" ELSE "failed"
          IN
          /\ ok => got /\ ~disk_is_full
          /\ fs' = IF got THEN Received(fs, working_dir, u) ELSE fs
          /\ IF out[1] = "raise"
             THEN /\ pc' = "raised"
                  /\ lib' = [lib EXCEPT !.synced = rsync, !.error = out[3]]
             ELSE IF ~out[2]
             THEN /\ pc' = "lib_ret"
                  /\ lib' = [lib EXCEPT !.synced = rsync, !.result = <<FALSE, out[3]>>]
             ELSE /\ pc' = "tb_series"
                  /\ lib' = [lib EXCEPT !.synced = rsync,
                                        !.series_todo = Entries(fs', working_dir)]
    /\ UNCHANGED <<hist, runs>>
    /\ UNCHANGED migration

\* create_latest_symlinks, lines 68-70: the next entry of the working
\* directory; when there is none left the function returns ok and
\* update_tarball_dirs publishes (lines 123-129)
TbSeries ==
    /\ pc = "tb_series"
    /\ IF lib.series_todo = {}
       THEN LET end == after_symlinks(fs, TRUE, "") IN
            /\ fs' = end.fs
            /\ lib' = [lib EXCEPT !.linked = "ok", !.published = end.published,
                                  !.result = end.result]
            /\ pc' = "lib_ret"
       ELSE \E sd \in lib.series_todo :
               /\ fs' = fs
               /\ IF IsDir(fs, sd)
                  THEN /\ lib' = [lib EXCEPT !.series_todo = @ \ {sd}, !.series_dir = sd,
                                             !.arch_todo = Entries(fs, sd)]
                       /\ pc' = "tb_arch"
                  ELSE /\ lib' = [lib EXCEPT !.series_todo = @ \ {sd}]
                       /\ pc' = pc
    /\ UNCHANGED <<hist, runs>>
    /\ UNCHANGED migration

\* lines 72-91: the next entry of the series directory.  is_valid reads
\* fields that a name of fewer than five parts never set: AttributeError.
\* When the architectures are not exactly one the function returns not ok,
\* and update_tarball_dirs goes on from that (lines 123-129)
TbArch ==
    /\ pc = "tb_arch"
    /\ IF lib.arch_todo = {}
       THEN lib' = lib /\ pc' = "tb_series" /\ fs' = fs
       ELSE \E ad \in lib.arch_todo :
               LET infos == {TarballInfo(q) : q \in {x \in Entries(fs, ad) : IsFile(fs, x)}}
                   valid_infos == {i \in infos : is_valid(i)}
                   arches == {i.arch : i \in valid_infos}
                   end == after_symlinks(fs, FALSE,
                                         "Got mixed set of arches for tarball clients")
               IN  IF ~IsDir(fs, ad)
                   THEN lib' = [lib EXCEPT !.arch_todo = @ \ {ad}] /\ pc' = pc /\ fs' = fs
                   ELSE IF \E i \in infos : ~i.parsed
                   THEN /\ lib' = [lib EXCEPT !.error = "AttributeError"]
                        /\ pc' = "raised"
                        /\ fs' = fs
                   ELSE IF Cardinality(arches) # 1
                   THEN /\ lib' = [lib EXCEPT !.linked = "failed",
                                              !.published = end.published,
                                              !.result = end.result]
                        /\ pc' = "lib_ret"
                        /\ fs' = end.fs
                   ELSE /\ lib' = [lib EXCEPT !.arch_todo = @ \ {ad}, !.infos = infos,
                                              !.arch = CHOOSE a \in arches : TRUE,
                                              !.os_todo = {i.os : i \in infos}]
                        /\ pc' = "tb_os"
                        /\ fs' = fs
    /\ UNCHANGED <<hist, runs>>
    /\ UNCHANGED migration

\* lines 92-97: the next OS version; sort() is stable, so of several
\* tarballs of the greatest date string any may come first
TbOs ==
    /\ pc = "tb_os"
    /\ IF lib.os_todo = {}
       THEN lib' = lib /\ pc' = "tb_arch" /\ fs' = fs
       ELSE \E os \in lib.os_todo :
               LET latest == Append(lib.series_dir,
                                             WN_TARBALL_NAME_PREFIX \o "." \o os \o "."
                                                 \o lib.arch \o ".tar.gz")
                   os_tarballs == {i \in lib.infos : i.os = os}
               IN  \E i \in os_tarballs :
                      /\ \A j \in os_tarballs : ~StrLess(i.date_string, j.date_string)
                      /\ lib' = [lib EXCEPT !.os_todo = @ \ {os}]
                      /\ Syscall(SymlinkOk(fs, latest),
                                 Symlink(fs, RelativeTo(i.full_path, lib.series_dir),
                                         latest),
                                 "tb_os")
    /\ UNCHANGED <<hist, runs>>
    /\ UNCHANGED migration

InitTarball ==
    /\ fs \in {Dirs({<<>>, <<"work">>, <<"dest">>, <<"prev">>}),
               Dirs({<<>>, <<"work">>, <<"dest">>, <<"prev">>, dest_dir, working_dir})}
    /\ fs0 = fs
    /\ pc = "idle"
    /\ argv = NoArgv
    /\ args = NoArgs
    /\ ran = <<>>
    /\ fn = ""
    /\ gen = NoGen
    /\ repo = <<>>
    /\ dest = <<>>
    /\ frame = NoFrame
    /\ hist = [startFs |-> <<>>, entryFs |-> <<>>, reachedFs |-> <<>>,
               gated |-> FALSE, repeat |-> FALSE, lastCall |-> <<>>,
               lastFs |-> <<>>]
    /\ runs = 0
    /\ crashes = 0
    /\ lib = NoLib

NextTarball == TbStart \/ TbSync \/ TbSeries \/ TbArch \/ TbOs \/ LibExit

SpecTarball == InitTarball /\ [][NextTarball]_vars

-----------------------------------------------------------------------------
(* What the claims speak of *)

\* the process is inside migrate_one_repo
InCall == pc \in {"one_scan", "one_file", "one_mkdir", "one_rename", "one_symlink",
                  "one_rep_mkdir", "one_link", "one_copy", "one_ret"}

\* a legacy-version marker, as the specification lists them
LegacyMarker(name) ==
    \E k \in 1..Len(name) :
        \E tag \in {".osg31", ".osg32", ".osg33", ".osg34", ".osg35", ".osg36",
                    ".osgdevops"} : HasAt(name, k, tag)

\* the names of the *.rpm entries directly under the directory r
RpmEntries(f, r) ==
    {Basename(q) : q \in {x \in DOMAIN f : /\ Len(x) > 0
                                           /\ Dirname(x) = Resolve(f, r)
                                           /\ HasAt(Basename(x), Len(Basename(x)) - 3, ".rpm")}}

\* the *.rpm entries under the repo of the current call, when it was entered
EntryNames == RpmEntries(hist.entryFs, frame.repo)

\* path holds, as a regular file, the content first stored at origin
Holds(f, path, origin) ==
    /\ LExists(f, path)
    /\ f[LPath(f, path)].kind = "file"
    /\ f[LPath(f, path)].data = origin

\* where package n of the repo r belongs, under pd
Primary(r, pd, n) == Append(destdir(pd, get_condor_package_subdirs(fs0, r), n), n)

\* the original path r/n is a compatibility symlink to the package, which is
\* in its primary bucket
Relocated(f, r, pd, n) ==
    /\ IsSymlink(f, Append(r, n))
    /\ Resolve(f, Append(r, n)) = Primary(r, pd, n)
    /\ Holds(f, Primary(r, pd, n), Append(r, n))

\* the part of the filesystem at and under the paths of S
Subtree(f, S) ==
    [q \in {x \in DOMAIN f : \E p \in S : IsPrefix(p, x)} |-> f[q]]

-----------------------------------------------------------------------------
(* C1 *)

\* C1: a call of migrate_one_repo that repeats the last completed call (same
\* repo and packages_dir, not a dry run, the filesystem as that call left it)
\* changes nothing: at every step of it, and when it returns, the filesystem
\* is the one it was entered with.
C1_Idempotent == (InCall /\ hist.repeat) => fs = hist.entryFs

C1_Witness ==
    /\ pc = "one_ret" /\ hist.repeat /\ frame.ret
    /\ Len(frame.all_rpms) = 2
    /\ \E k \in 1..2 : IsCondorRpm(frame.all_rpms[k])
    /\ \A k \in 1..2 : /\ IsSymlink(fs, Append(frame.repo, frame.all_rpms[k]))
                       /\ ~IsSymlink(fs0, Append(frame.repo, frame.all_rpms[k]))

-----------------------------------------------------------------------------
(* C2 *)

\* C2: if some *.rpm entry under the repo carries a legacy-version marker,
\* wherever it stands in the sorted listing, migrate_one_repo changes nothing
\* (the filesystem stays the one the call was entered with) and returns False.
C2_LegacyGate ==
    (InCall /\ \E n \in EntryNames : LegacyMarker(n)) =>
        /\ fs = hist.entryFs
        /\ pc = "one_ret" => ~frame.ret

C2_Witness ==
    /\ pc = "one_ret" /\ ~frame.dry_run /\ ~frame.ret
    /\ Len(frame.all_rpms) = 2
    /\ ~LegacyMarker(frame.all_rpms[1])
    /\ LegacyMarker(frame.all_rpms[2])
    /\ Holds(fs, Append(frame.repo, frame.all_rpms[1]),
             Append(frame.repo, frame.all_rpms[1]))

-----------------------------------------------------------------------------
(* C3 *)

\* C3: when a run of the binary migration was killed after any filesystem
\* step, a later complete run of migrate_one_repo on the repo ends with every
\* package in its primary bucket, every Condor-family package present in
\* every replica bucket, and every original path a compatibility symlink.
C3_Converges ==
    (pc = "one_ret" /\ crashes > 0 /\ frame.ret) =>
        \A n \in RpmEntries(fs0, frame.repo) :
            /\ Relocated(fs, frame.repo, frame.packages_dir, n)
            /\ IsCondorRpm(n) =>
                  \A b \in Range(frame.subdirs) :
                      LExists(fs, frame.packages_dir \o <<b, n>>)

-----------------------------------------------------------------------------
(* C4 *)

\* C4: when migrate_one_repo has returned True (not a dry run), every
\* Condor-family package it found as a regular file is held, as a regular
\* file with the package's content, in every bucket of the repo's Condor
\* ordering, and its original path is a symlink resolving to the copy in the
\* first bucket.
C4_Replicated ==
    (pc = "one_ret" /\ frame.ret /\ ~frame.dry_run) =>
        \A n \in EntryNames :
            (IsCondorRpm(n) /\ IsFile(hist.entryFs, Append(frame.repo, n))
                /\ ~IsSymlink(hist.entryFs, Append(frame.repo, n))) =>
                /\ \A b \in Range(frame.subdirs) :
                      Holds(fs, frame.packages_dir \o <<b, n>>, Append(frame.repo, n))
                /\ IsSymlink(fs, Append(frame.repo, n))
                /\ Resolve(fs, Append(frame.repo, n))
                       = frame.packages_dir \o <<frame.subdirs[1], n>>

-----------------------------------------------------------------------------
(* C5 *)

\* C5: in a dry run the filesystem is, at every step of the program, the one
\* the program was started on.
C5_DryRun == (pc # "idle" /\ argv.dry_run) => fs = hist.startFs

C5_Witness ==
    /\ pc = "exit" /\ argv.dry_run /\ ran = all_actions
    /\ \A rk \in Kinds :
          /\ Cardinality(RpmEntries(fs, RepoOf[rk])) = 2
          /\ \A n \in RpmEntries(fs, RepoOf[rk]) :
                ~LegacyMarker(n) /\ ~IsSymlink(fs, Append(RepoOf[rk], n))

-----------------------------------------------------------------------------
(* C6 *)

\* the source tree can be migrated: source/SRPMS is a directory and no
\* symlink, src does not exist, no package is a legacy one
SourceEligible(f) ==
    /\ IsDir(f, SrcRepo) /\ ~IsSymlink(f, SrcRepo)
    /\ ~Exists(f, NewSrc)
    /\ \A n \in RpmEntries(f, SrcRepo) : ~LegacyMarker(n)

\* C6: after migrate_source (not a dry run) on an eligible source tree,
\* source/SRPMS is a relative symlink resolving to src, every package is held
\* at src/Packages/<bucket>/<name>, and the per-package symlinks made before
\* the rename resolve to their packages, by the new and by the old path.
C6_SourceTree ==
    (pc = "exit" /\ "source" \in Range(ran) /\ ~argv.dry_run
        /\ SourceEligible(hist.startFs)) =>
        /\ IsSymlink(fs, SrcRepo)
        /\ fs[SrcRepo].target = <<"..", "src">>
        /\ Resolve(fs, SrcRepo) = NewSrc
        /\ \A n \in RpmEntries(hist.startFs, SrcRepo) :
              LET held == Primary(SrcRepo, Append(NewSrc, "Packages"), n) IN
              /\ Holds(fs, held, Append(SrcRepo, n))
              /\ IsSymlink(fs, Append(NewSrc, n))
              /\ Resolve(fs, Append(NewSrc, n)) = held
              /\ Resolve(fs, Append(SrcRepo, n)) = held

C6_Witness ==
    /\ pc = "exit" /\ "source" \in Range(ran) /\ ~argv.dry_run
    /\ SourceEligible(hist.startFs)
    /\ Cardinality(RpmEntries(hist.startFs, SrcRepo)) = 2
    /\ IsSymlink(fs, SrcRepo)

-----------------------------------------------------------------------------
(* C7 *)

\* C7: migrate_source renames the tree (and links it) only after
\* migrate_one_repo has returned True; and when the source tree holds a
\* legacy package, nothing at or under source/ and src is changed by the
\* program.
C7_RenameAfterTrue ==
    /\ pc \in {"source_rename", "source_symlink"} => frame.ret
    /\ (pc # "idle" /\ \E n \in RpmEntries(hist.startFs, SrcRepo) : LegacyMarker(n)) =>
          Subtree(fs, {Dirname(SrcRepo), NewSrc})
              = Subtree(hist.startFs, {Dirname(SrcRepo), NewSrc})

C7_Witness ==
    /\ pc = "source_ret" /\ ~frame.ret /\ ~args.dry_run
    /\ frame.repo = SrcRepo
    /\ \E n \in Range(frame.all_rpms) : ~LegacyMarker(n)
    /\ \E n \in Range(frame.all_rpms) : LegacyMarker(n)
    /\ ~Exists(fs, NewSrc)

-----------------------------------------------------------------------------
(* C8 *)

\* C8: when the source/SRPMS repo root migrate_source has reached was a
\* symlink, or its new location existed, the filesystem stays as it was when
\* the repo root was reached, until migrate_source is over.
C8_AlreadyMigrated ==
    (hist.gated /\ (fn = "source" \/ pc = "main_binary")) => fs = hist.reachedFs

C8_Witness ==
    /\ pc = "main_binary" /\ hist.gated /\ ~args.dry_run
    /\ repo = SrcRepo
    /\ IsSymlink(fs, SrcRepo)

-----------------------------------------------------------------------------
(* C9 *)

\* C9: between two package files of a run of migrate_one_repo, and at its
\* end, every package that was readable at its path under the repo when the
\* run began is still read there with the same content.
C9_ValidBetweenFiles ==
    pc \in {"one_file", "one_ret"} =>
        \A n \in EntryNames :
            IsFile(hist.entryFs, Append(frame.repo, n)) =>
                /\ IsFile(fs, Append(frame.repo, n))
                /\ fs[Resolve(fs, Append(frame.repo, n))].data
                       = hist.entryFs[Resolve(hist.entryFs, Append(frame.repo, n))].data

C9_Witness ==
    /\ pc = "one_file" /\ frame.i = 2 /\ Len(frame.all_rpms) = 2
    /\ frame.repo = DebugRepo
    /\ IsSymlink(fs, Append(frame.repo, frame.all_rpms[1]))
    /\ ~IsSymlink(hist.entryFs, Append(frame.repo, frame.all_rpms[1]))
    /\ ~IsSymlink(fs, Append(frame.repo, frame.all_rpms[2]))

-----------------------------------------------------------------------------
(* C10 *)

\* the kinds the flags select
Selected(flags) ==
    IF "--all" \in Range(flags) THEN Kinds
    ELSE {SubSeq(x, 3, Len(x)) : x \in Range(flags)}

\* C10: when main is over, it has run all three migrations if no kind flag
\* was given, and exactly the selected kinds otherwise.
C10_DefaultKinds ==
    pc = "exit" =>
        IF argv.flags = <<>> THEN ran = all_actions
        ELSE Range(ran) = Selected(argv.flags)

-----------------------------------------------------------------------------
(* C11 *)

\* the channel of the repo r: the name of its resolved parent directory, of
\* its resolved grandparent for a repo named debug or SRPMS
ChannelOf(f, r) ==
    LET real == Resolve(f, r)
        up == IF Basename(r) \in {"debug", "SRPMS"} THEN 2 ELSE 1
    IN  IF Len(real) > up THEN real[Len(real) - up] ELSE ""

\* the Condor buckets of a channel, the move destination first
BucketsOf(ch) ==
    CASE ch \in {"testing", "release"} -> <<"condor-release", "condor-update">>
      [] ch = "development" -> <<"condor-daily">>
      [] OTHER -> <<"condor-release", "condor-update", "condor-daily">>

CondorBuckets == {"condor-release", "condor-update", "condor-daily"}

\* the content the call found at the original path of package n
EntryData(n) == hist.entryFs[Resolve(hist.entryFs, Append(frame.repo, n))].data

\* the package n was a regular file under the repo when the call was entered
WasFile(n) ==
    /\ IsFile(hist.entryFs, Append(frame.repo, n))
    /\ ~IsSymlink(hist.entryFs, Append(frame.repo, n))

\* C11: the ordering migrate_one_repo works with is the one of the repo's
\* channel (testing, release: condor-release, condor-update; development:
\* condor-daily; otherwise all three); a Condor-family package is moved to
\* the first bucket of it and replicated to the others one after the other
\* in that order, and to no other Condor bucket.
C11_ChannelBuckets ==
    LET want == BucketsOf(ChannelOf(hist.entryFs, frame.repo))
        At(b, n) == frame.packages_dir \o <<b, n>>
    IN  /\ (pc \in {"one_file", "one_mkdir", "one_rename", "one_symlink",
                    "one_rep_mkdir", "one_link", "one_copy"}
                \/ (pc = "one_ret" /\ frame.ret)) => frame.subdirs = want
        /\ (pc \in {"one_mkdir", "one_rename", "one_symlink"}
                /\ IsCondorRpm(frame.all_rpms[frame.i])) =>
               destfile = At(want[1], frame.all_rpms[frame.i])
        /\ pc \in {"one_rep_mkdir", "one_link", "one_copy"} =>
               /\ IsCondorRpm(frame.all_rpms[frame.i])
               /\ frame.j \in 2..Len(want)
               /\ other_destfile = At(want[frame.j], frame.all_rpms[frame.i])
               /\ \A k \in 2..(frame.j - 1) :
                     LExists(fs, At(want[k], frame.all_rpms[frame.i]))
        /\ (pc = "one_ret" /\ frame.ret /\ ~frame.dry_run) =>
               \A n \in EntryNames :
                   (IsCondorRpm(n) /\ WasFile(n)) =>
                       /\ Holds(fs, At(want[1], n), EntryData(n))
                       /\ \A k \in 2..Len(want) : LExists(fs, At(want[k], n))
                       /\ \A b \in CondorBuckets \ Range(want) :
                             LExists(fs, At(b, n)) => LExists(hist.entryFs, At(b, n))

C11_Witness ==
    /\ pc = "one_link" /\ frame.j = 3
    /\ frame.subdirs = <<"condor-release", "condor-update", "condor-daily">>
    /\ frame.repo = RepoAt("itb", "source")
    /\ LExists(fs, frame.packages_dir \o <<"condor-update", frame.all_rpms[frame.i]>>)
    /\ ~LExists(fs, other_destfile)

-----------------------------------------------------------------------------
(* C12 *)

Digits == {"0", "1", "2", "3", "4", "5", "6", "7", "8", "9"}

\* the bucket of a package that is not Condor-family, by the first character
\* of its name
BucketOfName(n) ==
    LET c == Char(n, 1) IN
    IF c \in Digits THEN "0"
    ELSE IF \E k \in 1..Len(UpperCase) : Char(UpperCase, k) = c
    THEN Char(LowerCase, CHOOSE k \in 1..Len(UpperCase) : Char(UpperCase, k) = c)
    ELSE c

\* the entries of the name n in the buckets of the packages directory pd
BucketEntries(f, pd, n) ==
    {q \in DOMAIN f : /\ Len(q) = Len(Resolve(f, pd)) + 2
                      /\ IsPrefix(Resolve(f, pd), q)
                      /\ Basename(q) = n}

\* C12: when migrate_one_repo has returned True (not a dry run), every
\* package it found as a regular file that is not Condor-family is held in
\* the bucket named by the lowercase first character of its name ("0" for a
\* digit), in no other bucket of the packages directory, and its original
\* path is a symlink resolving to it.
C12_LetterBucket ==
    (pc = "one_ret" /\ frame.ret /\ ~frame.dry_run) =>
        \A n \in EntryNames :
            (~IsCondorRpm(n) /\ WasFile(n)) =>
                LET home == frame.packages_dir \o <<BucketOfName(n), n>> IN
                /\ Holds(fs, home, EntryData(n))
                /\ BucketEntries(fs, frame.packages_dir, n) = {LPath(fs, home)}
                /\ IsSymlink(fs, Append(frame.repo, n))
                /\ Resolve(fs, Append(frame.repo, n)) = LPath(fs, home)

C12_Witness ==
    /\ pc = "one_ret" /\ frame.ret /\ ~frame.dry_run
    /\ frame.repo = RepoAt("release", "debug")
    /\ Holds(fs, frame.packages_dir \o <<"0", RpmName("7zip", "debug")>>,
             Append(frame.repo, RpmName("7zip", "debug")))
    /\ Holds(fs, frame.packages_dir \o <<"z", RpmName("Zlib", "debug")>>,
             Append(frame.repo, RpmName("Zlib", "debug")))

-----------------------------------------------------------------------------
(* C17 *)

\* the symlinks move_and_symlink has made: the symlinks that were not there
\* before the program was run, outside the Packages directories (where the
\* replicas are made)
MadeLinks ==
    {q \in DOMAIN fs : /\ fs[q].kind = "link"
                       /\ "Packages" \notin Range(q)
                       /\ ~(q \in DOMAIN fs0 /\ fs0[q].kind = "link")}

\* C17: every symlink move_and_symlink has made has a relative target and
\* resolves: the symlink of a package to the regular file of that package,
\* the symlink source/SRPMS to the directory src; the symlinks of the
\* packages of a source tree also, after the tree was renamed.
C17_RelativeLinks ==
    \A q \in MadeLinks :
        /\ fs[q].target # <<>>
        /\ fs[q].target[1] # "/"
        /\ Exists(fs, q)
        /\ fs[Resolve(fs, q)].kind = "file" =>
              /\ Basename(Resolve(fs, q)) = Basename(q)
              /\ Basename(fs[Resolve(fs, q)].data) = Basename(q)
        /\ fs[Resolve(fs, q)].kind = "dir" =>
              /\ Basename(q) = "SRPMS"
              /\ Basename(Resolve(fs, q)) = "src"

-----------------------------------------------------------------------------
(* C18 *)

\* C18: no step of migrate_one_repo raises; the step that follows a failed
\* os.link leaves the replica as a regular file of its own (not a link to
\* the package) with the package's content and goes on with the next replica
\* bucket or the next package; and the call that has gone through all its
\* packages returns True.
C18_Fallback ==
    [][/\ InCall => pc' # "raised"
       /\ pc = "one_copy" =>
             /\ pc' \in {"one_rep_mkdir", "one_file"}
             /\ Holds(fs', other_destfile, fs[Resolve(fs, rpm)].data)
             /\ fs'[LPath(fs', other_destfile)].ino # fs[Resolve(fs, rpm)].ino
             /\ frame' = ToReplica(frame, frame.j + 1)[1]
       /\ (pc = "one_file" /\ pc' = "one_ret") => frame'.ret]_vars

C18_Witness ==
    /\ pc = "one_ret" /\ frame.ret /\ frame.repo = BinRepo
    /\ Holds(fs0, StaleReplica, <<"stale">>)
    /\ Holds(fs, StaleReplica, Append(BinRepo, RpmName("condor", "binary")))
    /\ IsSymlink(fs, Append(BinRepo, RpmName("Zlib", "binary")))

-----------------------------------------------------------------------------
(* C19 *)

\* the source/SRPMS repo roots under the directories ds
SourceRoots(f, ds) ==
    {r \in UNION {Repos(f, ds[k]) : k \in DOMAIN ds} :
        /\ Len(r) >= 2
        /\ SubSeq(r, Len(r) - 1, Len(r)) = <<"source", "SRPMS">>}

\* where the source tree r is renamed to
NewPlace(f, r) == Append(Dirname(Dirname(Resolve(f, r))), "src")

\* the source tree r is not migrated already and has no legacy package
Eligible(f, r) ==
    /\ ~IsSymlink(f, r)
    /\ ~Exists(f, NewPlace(f, r))
    /\ \A n \in RpmEntries(f, r) : ~LegacyMarker(n)

\* C19: when migrate_source has returned (not a dry run), every source tree
\* under the given directories that was eligible when the program started is
\* migrated: it is a symlink and its new location is a directory.
C19_AllSourceTrees ==
    (pc = "main_binary" /\ ran = <<"source">> /\ ~args.dry_run) =>
        \A r \in SourceRoots(hist.startFs, args.dirs) :
            Eligible(hist.startFs, r) =>
                /\ IsSymlink(fs, r)
                /\ IsDir(fs, NewPlace(hist.startFs, r))

-----------------------------------------------------------------------------
(* C20 *)

IsDebugName(r) == Basename(r) = "debug"

UnderArch(r) == Len(r) >= 2 /\ r[Len(r) - 1] \in Range(BINARY_ARCHES)

\* C20: migrate_debug calls migrate_one_repo only on a repo named debug
\* in an architecture directory, with the Packages directory of that
\* directory; and a repo that is only one of the two is, when migrate_debug
\* is over, as it was when the program started.
C20_DebugSelection ==
    /\ (fn = "debug" /\ InCall) =>
          /\ IsDebugName(frame.repo)
          /\ UnderArch(frame.repo)
          /\ frame.packages_dir = Append(Dirname(frame.repo), "Packages")
    /\ (pc = "exit" /\ ran = <<"debug">>) =>
          \A r \in UNION {Repos(hist.startFs, args.dirs[k]) : k \in DOMAIN args.dirs} :
              (IsDebugName(r) # UnderArch(r)) =>
                  Subtree(fs, {r}) = Subtree(hist.startFs, {r})

-----------------------------------------------------------------------------
(* C13, C14 *)

InLatest == lib.f = "link_latest_release"

\* the release number a package name carries, read off the name as text:
\* "-<n>.osg" for a number n that is published
NumberIn(name) ==
    LET ns == {n \in 1..12 : \E k \in 1..Len(name) :
                                 HasAt(name, k, "-" \o ToString(n) \o ".osg")}
    IN  IF ns = {} THEN 0 ELSE CHOOSE n \in ns : TRUE

\* the osg-release packages with a release number of a pair, under the
\* primary architecture
Candidates(f, pr) ==
    LET series == ReleaseSeries[pr[1]]
        under == <<"dest", series.dest, series.dvers[pr[2]], "release", series.arches[1]>>
    IN  {q \in DOMAIN f : /\ IsPrefix(under, q)
                          /\ f[q].kind = "file"
                          /\ HasAt(Basename(q), 1, "osg-release")
                          /\ NumberIn(Basename(q)) > 0}

Pointer(pr) ==
    <<"dest", ReleaseSeries[pr[1]].dest,
      "osg-" \o ReleaseSeries[pr[1]].name \o "-" \o ReleaseSeries[pr[1]].dvers[pr[2]]
          \o "-release-latest.rpm">>

\* the pointer of the pair is a symlink to a package of the highest number
PointsAtLatest(f, pr) ==
    /\ IsSymlink(f, Pointer(pr))
    /\ Resolve(f, Pointer(pr)) \in Candidates(f, pr)
    /\ \A q \in Candidates(f, pr) :
          NumberIn(Basename(q)) <= NumberIn(Basename(Resolve(f, Pointer(pr))))

\* the pair comes before the one the loops are at
Earlier(pr) == pr[1] < lib.s \/ (pr[1] = lib.s /\ pr[2] < lib.d)

\* C13: when link_latest_release returns ok, the pointer of every series
\* and OS version is a symlink that resolves to the package of the highest
\* release number under the primary architecture; and a call on a tree in
\* which every pair has such a package returns, whether or not the pointers
\* are there already.
C13_Repointed ==
    InLatest =>
        /\ (pc = "lib_ret" /\ lib.result[1]) =>
              \A pr \in Pairs : PointsAtLatest(fs, pr)
        /\ pc = "raised" => \E pr \in Pairs : Candidates(fs, pr) = {}

\* C14: link_latest_release goes on to make the symlink of a pair only when
\* the pair has a package with a release number under the primary
\* architecture; when it has none the function returns, as a value, not ok
\* and a message that names the series, the pointer of the pair is as it
\* was when the call began, and the pointers of the pairs before it are
\* symlinks to their latest packages.
C14_NoCandidate ==
    InLatest =>
        /\ pc = "llr_symlink" => Candidates(fs, <<lib.s, lib.d>>) # {}
        /\ (pc = "llr_pair" /\ lib.s <= Len(ReleaseSeries)) =>
              \A pr \in Pairs : Earlier(pr) => PointsAtLatest(fs, pr)
        /\ (pc = "lib_ret" /\ ~lib.result[1]) =>
              /\ Candidates(fs, <<lib.s, lib.d>>) = {}
              /\ \E k \in 1..Len(lib.result[2]) :
                    HasAt(lib.result[2], k, ReleaseSeries[lib.s].name)
              /\ Subtree(fs, {Pointer(<<lib.s, lib.d>>)})
                    = Subtree(hist.startFs, {Pointer(<<lib.s, lib.d>>)})
              /\ \A pr \in Pairs : Earlier(pr) => PointsAtLatest(fs, pr)
        /\ pc = "raised" => Candidates(fs, <<lib.s, lib.d>>) # {}

\* the second pair holds only a package without a release number: the call
\* has made the pointer of the first pair and returned not ok
C14_Witness ==
    /\ InLatest
    /\ pc = "lib_ret"
    /\ ~lib.result[1]
    /\ lib.s = 1
    /\ lib.d = 2
    /\ IsSymlink(fs, Pointer(<<1, 1>>))
    /\ ReleaseFile(Series23, "el9", "plain") \in DOMAIN fs

-----------------------------------------------------------------------------
(* C15 *)

InStatic == lib.f = "link_static_data"

\* the call got past the checks of its options
Reconciling ==
    /\ InStatic
    /\ IsAbsolute(lib.static_root)
    /\ Exists(hist.startFs, lib.static_src)

\* the names of the static source's entries
SourceNames(f) ==
    {Basename(q) : q \in {x \in DOMAIN f : /\ Len(x) > 0
                                           /\ Dirname(x) = Tail(lib.static_src)}}

\* where the symlink at the real path q leads, read as text
Aim(f, q) ==
    Tail(IF Head(f[q].target) = "/" THEN f[q].target
         ELSE <<"/">> \o Dirname(q) \o f[q].target)

\* the symlinks of the data directory that lead into the static source
LinksInto(f) ==
    {q \in DOMAIN f : /\ Len(q) > 0
                      /\ Dirname(q) = Tail(lib.data_dst)
                      /\ f[q].kind = "link"
                      /\ IsPrefix(Tail(lib.static_src), Aim(f, q))
                      /\ Len(Aim(f, q)) > Len(Tail(lib.static_src))}

\* (1) no symlink of the data directory into the static source dangles
C15_NoDangling ==
    (Reconciling /\ pc = "lib_ret" /\ lib.result[1]) =>
        \A q \in LinksInto(fs) : Resolve(fs, q) \in DOMAIN fs

\* (2) every entry of the static source has its symlink
C15_AllLinked ==
    (Reconciling /\ pc = "lib_ret" /\ lib.result[1]) =>
        \A n \in SourceNames(fs) :
            /\ IsSymlink(fs, Append(lib.data_dst, n))
            /\ Resolve(fs, Append(lib.data_dst, n)) = Tail(lib.static_src) \o <<n>>

\* (3) a second call on what the first one left changes nothing
C15_Again ==
    (/\ Reconciling /\ pc = "lib_ret" /\ lib.result[1]
     /\ runs > 1
     /\ hist.lastCall.f = "link_static_data"
     /\ hist.lastCall.static_root = lib.static_root
     /\ hist.lastCall.result[1]
     /\ hist.lastFs = hist.startFs) =>
        fs = hist.startFs

\* (4) a name of the static source taken in the data directory by something
\* that is not a symlink: the call returns not ok and the thing is as it was
C15_Occupied ==
    (Reconciling /\ pc \in {"lib_ret", "raised"}) =>
        \A n \in SourceNames(hist.startFs) :
            LET q == Append(Tail(lib.data_dst), n) IN
            (q \in DOMAIN hist.startFs /\ hist.startFs[q].kind # "link") =>
                /\ pc = "lib_ret"
                /\ ~lib.result[1]
                /\ Subtree(fs, {q}) = Subtree(hist.startFs, {q})

\* C15: when link_static_data returns ok, no symlink of the destination's
\* data directory that leads into the static source dangles, every entry
\* of the static source has a symlink of its name there that resolves to
\* it, and a call on what an ok call left changes nothing; and when a name
\* of a source entry is taken there by something that is not a symlink,
\* the call returns not ok and leaves that thing as it was.
C15_Reconciled ==
    /\ C15_NoDangling
    /\ C15_AllLinked
    /\ C15_Again
    /\ C15_Occupied

-----------------------------------------------------------------------------
(* C16 *)

InTarball == lib.f = "update_tarball_dirs"

Symlinks(f) == {q \in DOMAIN f : f[q].kind = "link"}

\* C16: in update_tarball_dirs, an rsync that fails with the full disk
\* showing in its output ends the call with DiskFullError raised and no
\* value returned; an rsync that fails otherwise ends it with the value
\* (False, message); and in both cases no symlink has been made,
\* update_release_repos has not been called, and the destination directory
\* is as the call found it.
C16_DiskFull ==
    (InTarball /\ lib.synced \in {"full", "failed"}) =>
        /\ lib.synced = "full" =>
              /\ pc = "raised"
              /\ lib.error = "DiskFullError"
              /\ lib.result = <<>>
        /\ lib.synced = "failed" =>
              /\ pc = "lib_ret"
              /\ ~lib.result[1]
              /\ Len(lib.result[2]) > 0
              /\ lib.error = ""
        /\ ~lib.published
        /\ Symlinks(fs) = Symlinks(hist.startFs)
        /\ Subtree(fs, {dest_dir}) = Subtree(MkdirP(hist.startFs, dest_dir), {dest_dir})

\* the disk is full in the second run, after the first one has published
C16_Witness ==
    /\ InTarball
    /\ lib.synced = "full"
    /\ pc = "raised"
    /\ runs = 2
    /\ Symlinks(Subtree(fs, {dest_dir})) # {}
    /\ Entries(fs, working_dir) # {}

-----------------------------------------------------------------------------
(* C21 *)

\* the destination directory as the call found it (made, if it was not there)
DestAtStart == Subtree(MkdirP(hist.startFs, dest_dir), {dest_dir})

\* C21: in update_tarball_dirs the working directory is published only
\* when the rsync has ended well and create_latest_symlinks, run after it,
\* has returned ok: while the symlinks are being made the rsync is over and
\* nothing is published, and until the publication the destination
\* directory is as the call found it.  When create_latest_symlinks returns
\* not ok, the call returns (False, message) with the destination directory
\* as the call found it.
C21_PublishLast ==
    InTarball =>
        /\ pc \in {"tb_series", "tb_arch", "tb_os"} =>
              lib.synced = "ok" /\ lib.linked = ""
        /\ lib.linked # "" => lib.synced = "ok"
        /\ lib.published =>
              /\ lib.synced = "ok"
              /\ lib.linked = "ok"
              /\ pc = "lib_ret"
              /\ lib.result = <<TRUE, "">>
        /\ ~lib.published => Subtree(fs, {dest_dir}) = DestAtStart
        /\ lib.linked = "failed" =>
              /\ pc = "lib_ret"
              /\ ~lib.result[1]
              /\ Len(lib.result[2]) > 0
              /\ ~lib.published

\* in the second run an architecture directory holds tarballs of two
\* architectures: a symlink was made for the directory before it, the call
\* has returned not ok, and what the first run published is in place
C21_Witness ==
    /\ InTarball
    /\ pc = "lib_ret"
    /\ lib.linked = "failed"
    /\ runs = 2
    /\ Symlinks(Subtree(fs, {working_dir})) # {}
    /\ Symlinks(Subtree(fs, {dest_dir})) # {}
    /\ Subtree(fs, {dest_dir}) = DestAtStart

====
